---- MODULE Spec2Model ----
(***************************************************************************)
(* Model of the DevFund manager: the monitor's cycle (monitor.py), the     *)
(* distribution calculator and readiness gate (devfund_manager.py) and the *)
(* transaction pipeline (multisig_op.py).                                  *)
(*                                                                         *)
(* Amounts are integers in minor units (sats).  The clock is counted in    *)
(* whole hours; the date of an hour is hour \div HoursPerDay.  A field     *)
(* that holds None in the program holds NoneVal here.                      *)
(***************************************************************************)
EXTENDS Integers, Sequences, FiniteSets, TLC

VARIABLES
    \* ---- monitor.py: DevFundMonitor
    state,            \* self.state, the MonitorState dictionary
    saved,            \* contents of the state file (.monitor_state.json)
    monitor_config,   \* MonitorConfig: the two caps
    pc,               \* where the monitor is: idle / estop_sleep / dryrun / execute
    now,              \* the wall clock (datetime.now()), in hours
    sentinel,         \* TRUE iff the emergency stop file exists
    last_status_time, \* self._last_status_time
    txseq,            \* number of transactions the execute command has reported
    cyc,              \* history of the cycle in progress or last completed
    rec,              \* history: distributions recorded in the current hour / date
    \* ---- devfund_manager.py / multisig_op.py
    config,           \* Config of the distribution manager
    balance,          \* the treasury balance handed to calculate_distribution
    plan,             \* what calculate_distribution returned
    tpc,              \* position of the manager / pipeline run
    utxos,            \* confirmed UTXO values of the treasury (listunspent)
    pending,          \* unconfirmed change returned to the treasury
    queue,            \* transactions the run has still to send
    tx,               \* history: the last transaction built
    run,              \* history of the distribution run (payouts, fees, successes)
    sel,              \* select_utxos: its arguments and its result
    \* ---- runs of single operations
    bc,               \* multisig_op.py: one sign-and-broadcast run, or one cli_command call
    gate,             \* devfund_manager.py: one should_distribute run
    rt,               \* monitor.py: history of a save / load of the state file
    once,             \* monitor.py: a second process, started by the 'once' command
    mgr               \* devfund_manager.py: one command of DevFundManager.run

mvars == <<state, saved, monitor_config, pc, now, sentinel, last_status_time,
           txseq, cyc, rec>>
tvars == <<config, balance, plan, tpc, utxos, pending, queue, tx, run, sel>>
xvars == <<bc, gate, rt, once, mgr>>
vars  == <<state, saved, monitor_config, pc, now, sentinel, last_status_time,
           txseq, cyc, rec, config, balance, plan, tpc, utxos, pending, queue,
           tx, run, sel, bc, gate, rt, once, mgr>>

NoneVal == -1

\* The variables of the single-operation runs while none of them is modelled.
XIdle ==
    /\ bc = NoneVal
    /\ gate = NoneVal
    /\ rt = NoneVal
    /\ once = NoneVal
    /\ mgr = NoneVal

\* ------------------------------------------------------------------ bounds
MaxClock == 3
HoursPerDay == 2
MaxPerHour == 1
MaxPerDay == 2
MaxErrors == 3

\* ==================================================================
\* monitor.py
\* ==================================================================

date_of(t) == t \div HoursPerDay

default_state ==
    [ last_distribution       |-> NoneVal,
      last_consolidation      |-> NoneVal,
      distributions_today     |-> 0,
      distributions_this_hour |-> 0,
      last_check_date         |-> NoneVal,
      last_check_hour         |-> NoneVal,
      total_distributions     |-> 0,
      total_consolidations    |-> 0,
      last_balance            |-> 0,
      errors_count            |-> 0 ]

\* self.state.get('last_txid', None): the key is written by the first
\* distribution whose transaction id was found and is not among the defaults.
last_txid(s) == IF "last_txid" \in DOMAIN s THEN s.last_txid ELSE NoneVal

\* A last_consolidation string that datetime.fromisoformat rejects.
Malformed == -2

\* json.dump / json.load of one value of the state dictionary: None is written
\* as null, a str as a string, an int as a number.
StringKeys == {"last_distribution", "last_consolidation", "last_check_date",
               "last_check_hour", "last_txid"}

json_dump_value(k, v) ==
    IF v = NoneVal THEN [ type |-> "null", value |-> 0 ]
    ELSE IF k \in StringKeys THEN [ type |-> "string", value |-> v ]
    ELSE [ type |-> "number", value |-> v ]

json_load_value(j) == IF j.type = "null" THEN NoneVal ELSE j.value

\* The state file does not exist; its contents are rejected by json.load.
NoFile == [ type |-> "absent" ]
Corrupt == [ type |-> "corrupt" ]

\* _save_state, lines 209-212: the file written for the dictionary s.
save_state(s) == [ k \in DOMAIN s |-> json_dump_value(k, s[k]) ]

load_state_defaults_win(file) ==
    IF file = NoFile \/ file = Corrupt THEN default_state
    ELSE [ k \in DOMAIN file \cup DOMAIN default_state |->
             IF k \in DOMAIN default_state THEN default_state[k]
             ELSE json_load_value(file[k]) ]

\* _load_state, lines 192-204: no file or an unreadable one gives the defaults;
\* otherwise the keys of the file are kept and the missing ones are filled in.
load_state(file) ==
    IF file = NoFile \/ file = Corrupt THEN default_state
    ELSE [ k \in DOMAIN file \cup DOMAIN default_state |->
             IF k \in DOMAIN file THEN json_load_value(file[k])
             ELSE default_state[k] ]

reset_daily_counters_always(s, t) ==
    [s EXCEPT !.distributions_today = 0, !.last_check_date = date_of(t)]

reset_daily_counters(s, t) ==
    IF s.last_check_date # date_of(t)
    THEN [s EXCEPT !.distributions_today = 0, !.last_check_date = date_of(t)]
    ELSE s

reset_hourly_counters_always(s, t) ==
    [s EXCEPT !.distributions_this_hour = 0, !.last_check_hour = t]

reset_hourly_counters(s, t) ==
    IF s.last_check_hour # t
    THEN [s EXCEPT !.distributions_this_hour = 0, !.last_check_hour = t]
    ELSE s

check_emergency_stop_never(exists) == FALSE

check_emergency_stop_always(exists) == TRUE

check_emergency_stop(exists) == exists

hourly_limit_reached_late(s, c) ==
    s.distributions_this_hour > c.max_distributions_per_hour

hourly_limit_reached(s, c) ==
    s.distributions_this_hour >= c.max_distributions_per_hour

daily_limit_reached_late(s, c) ==
    s.distributions_today > c.max_distributions_per_day

daily_limit_reached(s, c) ==
    s.distributions_today >= c.max_distributions_per_day

\* _execute_distribution, lines 312-344: the command succeeded at time t and
\* _extract_transaction_id found txid in its output (NoneVal: found none).
record_success(s, t, txid) ==
    LET counted == [s EXCEPT !.last_distribution = t,
                             !.distributions_today = @ + 1,
                             !.distributions_this_hour = @ + 1,
                             !.total_distributions = @ + 1]
    IN IF txid # NoneVal
       THEN [ k \in DOMAIN counted \cup {"last_txid"} |->
                IF k = "last_txid" THEN txid ELSE counted[k] ]
       ELSE counted

record_failure(s) == [s EXCEPT !.errors_count = @ + 1]

decay_errors_below_zero(s) == [s EXCEPT !.errors_count = @ - 1]

\* run_once, line 480: max(0, errors_count - 1)
decay_errors(s) ==
    [s EXCEPT !.errors_count = IF @ - 1 > 0 THEN @ - 1 ELSE 0]

status_due(t) == last_status_time = NoneVal \/ t - last_status_time > 1

\* _should_consolidate, lines 352-366, behind the guard of run_once line 476:
\* "no", "yes", or "raises" when fromisoformat rejects last_consolidation.
should_consolidate(s, c, t) ==
    IF ~ (c.consolidate_interval > 0) THEN "no"
    ELSE IF s.last_consolidation = NoneVal THEN "yes"
    ELSE IF s.last_consolidation = Malformed THEN "raises"
    ELSE IF t - s.last_consolidation < c.consolidate_interval THEN "no"
    ELSE "yes"

\* _execute_consolidation, lines 368-390; valid_ok: the validate command exited 0.
execute_consolidation(s, t, valid_ok) ==
    IF valid_ok
    THEN [s EXCEPT !.last_consolidation = t, !.total_consolidations = @ + 1]
    ELSE s

\* run_once, lines 482-488: the except clause.
handle_exception(s) == [s EXCEPT !.errors_count = @ + 1]

run_once_catches_nothing(exception) == FALSE

\* run_once, line 482: "except Exception" catches everything but SystemExit
\* and KeyboardInterrupt.
run_once_catches(exception) ==
    exception \notin {"SystemExit", "KeyboardInterrupt"}

\* run_once, lines 475-491, after the readiness branch left the dictionary s:
\* the consolidation check, the decay of the error counter or the except
\* clause.  escapes: the exception leaves run_once.
end_of_cycle(s, c, t, valid_ok) ==
    LET due == should_consolidate(s, c, t)
    IN IF due = "raises"
       THEN IF run_once_catches("ValueError")
            THEN [ state |-> handle_exception(s), raised |-> TRUE,
                   escapes |-> FALSE ]
            ELSE [ state |-> s, raised |-> TRUE, escapes |-> TRUE ]
       ELSE [ state |-> decay_errors(IF due = "yes"
                                     THEN execute_consolidation(s, t, valid_ok)
                                     ELSE s),
              raised |-> FALSE, escapes |-> FALSE ]

cycle_file_unless_raised(file, s, raised) ==
    IF raised THEN file ELSE save_state(s)

\* run_once, lines 490-491: the finally clause writes the dictionary to the
\* state file whether or not an exception was raised.
cycle_file(file, s, raised) == save_state(s)

\* self.running, and the process still being there.
running == pc \notin {"exited", "crashed", "off"}

\* History of a cycle: the state before it, the hour it started in, whether the
\* sentinel existed when checked, whether the dry-run reported readiness, whether
\* a cap was met when checked, the commands started, how it ended.
\* Also: whether the cycle wrote the state file, whether an exception was raised
\* inside it, for a successful distribution the time it was recorded at and the
\* transaction id its command reported, and whether the last command exited 0.
\* signal is where the monitor was when a termination signal arrived ("none"
\* without one); inflight_sent says that the execute command interrupted by
\* the signal had already sent its transaction; stopped_before says that an
\* earlier cycle was preempted by the emergency stop; restarts counts the
\* starts of a new monitor process, restarted marks the first cycle of one.
NoCycle ==
    [ pre |-> default_state, start |-> 0, estop |-> FALSE, ready |-> FALSE,
      capmet |-> FALSE, dryruns |-> 0, execs |-> 0, outcome |-> "none",
      done |-> TRUE, saved |-> FALSE, raised |-> FALSE, rectime |-> NoneVal,
      txid |-> NoneVal, cmdok |-> TRUE, signal |-> "none",
      inflight_sent |-> FALSE, stopped_before |-> FALSE,
      restarts |-> 0, restarted |-> FALSE ]

\* History of the recorded distributions: how many carry a timestamp in the
\* current hour / date (hour, day), and how many were made by cycles that
\* started in hour shour / on date sday (shcount, sdcount).
NoRecord ==
    [ hour |-> 0, day |-> 0, shour |-> NoneVal, shcount |-> 0,
      sday |-> NoneVal, sdcount |-> 0 ]

CapMet(s, c) ==
    \/ s.distributions_this_hour >= c.max_distributions_per_hour
    \/ s.distributions_today >= c.max_distributions_per_day

RecordDistribution(r, start) ==
    [ hour    |-> r.hour + 1,
      day     |-> r.day + 1,
      shour   |-> start,
      shcount |-> IF r.shour = start THEN r.shcount + 1 ELSE 1,
      sday    |-> date_of(start),
      sdcount |-> IF r.sday = date_of(start) THEN r.sdcount + 1 ELSE 1 ]

MInit ==
    /\ state = default_state
    /\ saved = NoFile
    /\ monitor_config \in [ max_distributions_per_hour : 0..MaxPerHour,
                            max_distributions_per_day  : 0..MaxPerDay,
                            consolidate_interval       : {0} ]
    /\ pc = "idle"
    /\ now = 0
    /\ sentinel = FALSE
    /\ last_status_time = NoneVal
    /\ txseq = 0
    /\ cyc = NoCycle
    /\ rec = NoRecord

\* run_once, lines 442-448: the resets, then the emergency stop check.  With the
\* sentinel present the cycle sleeps and returns; otherwise the dry-run command
\* of _check_ready_for_distribution is started.
CycleStart ==
    /\ pc = "idle"
    /\ state.errors_count < MaxErrors
    /\ LET s1 == reset_hourly_counters(reset_daily_counters(state, now), now)
           stop == check_emergency_stop(sentinel)
       IN /\ state' = s1
          /\ pc' = IF stop THEN "estop_sleep" ELSE "dryrun"
          /\ cyc' = [ pre |-> state, start |-> now, estop |-> sentinel,
                      ready |-> FALSE, capmet |-> FALSE,
                      dryruns |-> IF stop THEN 0 ELSE 1, execs |-> 0,
                      outcome |-> IF stop THEN "estop" ELSE "none",
                      done |-> FALSE, saved |-> FALSE, raised |-> FALSE,
                      rectime |-> NoneVal, txid |-> NoneVal, cmdok |-> TRUE,
                      signal |-> "none", inflight_sent |-> FALSE,
                      stopped_before |-> cyc.stopped_before \/ cyc.estop,
                      restarts |-> cyc.restarts,
                      restarted |-> cyc.outcome = "restarted" ]
    /\ UNCHANGED <<saved, monitor_config, now, sentinel, last_status_time,
                   txseq, rec>> /\ UNCHANGED tvars /\ UNCHANGED xvars

\* run_once, lines 447-448: time.sleep(60) is over, return (nothing is saved).
EstopSleepDone ==
    /\ pc = "estop_sleep"
    /\ pc' = "idle"
    /\ cyc' = [cyc EXCEPT !.done = TRUE]
    /\ UNCHANGED <<state, saved, monitor_config, now, sentinel,
                   last_status_time, txseq, rec>> /\ UNCHANGED tvars /\ UNCHANGED xvars

\* _run_command, lines 241-277, for the outcome of the process: the pair
\* (success, output) it returns; no outcome makes it raise.
CommandOutcomes == {"exit0", "nonzero", "timeout", "notfound", "undecodable"}

run_command(outcome) ==
    [ success |-> outcome = "exit0", raised |-> FALSE ]

\* The dry-run returned and did not report readiness (it failed, timed out,
\* could not be started, or its output lacks the readiness line): the status is
\* shown when due (a second dry-run), then the cycle ends.
DryRunNotReady ==
    /\ pc = "dryrun"
    /\ \E outcome \in CommandOutcomes, marker \in BOOLEAN, valid_ok \in BOOLEAN :
         LET r == run_command(outcome)
             e == end_of_cycle(state, monitor_config, now, valid_ok)
         IN /\ ~ (r.success /\ marker)
            /\ state' = e.state
            /\ saved' = cycle_file(saved, e.state, e.raised)
            /\ pc' = IF e.escapes THEN "crashed" ELSE "idle"
            /\ cyc' = [cyc EXCEPT !.outcome = "notready", !.done = TRUE,
                         !.dryruns = IF status_due(now) THEN @ + 1 ELSE @,
                         !.saved = TRUE, !.raised = e.raised,
                         !.cmdok = r.success]
    /\ last_status_time' = IF status_due(now) THEN now ELSE last_status_time
    /\ UNCHANGED <<monitor_config, now, sentinel, txseq, rec>> /\ UNCHANGED tvars /\ UNCHANGED xvars

\* The dry-run reported readiness and _execute_distribution found a cap met
\* (lines 296-302): it returns False, then the cycle ends.
DryRunReadyCapped ==
    /\ pc = "dryrun"
    /\ \/ hourly_limit_reached(state, monitor_config)
       \/ daily_limit_reached(state, monitor_config)
    /\ \E valid_ok \in BOOLEAN :
         LET e == end_of_cycle(state, monitor_config, now, valid_ok)
         IN /\ state' = e.state
            /\ saved' = cycle_file(saved, e.state, e.raised)
            /\ pc' = IF e.escapes THEN "crashed" ELSE "idle"
            /\ cyc' = [cyc EXCEPT !.ready = TRUE, !.outcome = "capped",
                         !.done = TRUE, !.capmet = CapMet(state, monitor_config),
                         !.saved = TRUE, !.raised = e.raised]
    /\ UNCHANGED <<monitor_config, now, sentinel, last_status_time, txseq, rec>> /\ UNCHANGED tvars /\ UNCHANGED xvars

\* The dry-run reported readiness and no cap is met: the execute command is
\* started (lines 304-310).
DryRunReadyExecute ==
    /\ pc = "dryrun"
    /\ ~ hourly_limit_reached(state, monitor_config)
    /\ ~ daily_limit_reached(state, monitor_config)
    /\ cyc' = [cyc EXCEPT !.ready = TRUE, !.execs = @ + 1,
                          !.capmet = CapMet(state, monitor_config)]
    /\ pc' = "execute"
    /\ UNCHANGED <<state, saved, monitor_config, now, sentinel,
                   last_status_time, txseq, rec>> /\ UNCHANGED tvars /\ UNCHANGED xvars

\* The execute command exited 0 (lines 312-344); found says whether a
\* transaction id was found in its output by _extract_transaction_id.  Then
\* run_once sleeps and the cycle ends.
ExecuteSucceeds(found) ==
    /\ pc = "execute"
    /\ run_command("exit0").success
    /\ txseq' = txseq + 1
    /\ \E valid_ok \in BOOLEAN :
         LET txid == IF found THEN txseq + 1 ELSE NoneVal
             s1 == record_success(state, now, txid)
             e == end_of_cycle(s1, monitor_config, now, valid_ok)
         IN /\ state' = e.state
            /\ saved' = cycle_file(saved, e.state, e.raised)
            /\ pc' = IF e.escapes THEN "crashed" ELSE "idle"
            /\ cyc' = [cyc EXCEPT !.outcome = "success", !.done = TRUE,
                         !.saved = TRUE, !.raised = e.raised,
                         !.rectime = now, !.txid = txseq + 1]
    /\ rec' = RecordDistribution(rec, cyc.start)
    /\ UNCHANGED <<monitor_config, now, sentinel, last_status_time>> /\ UNCHANGED tvars /\ UNCHANGED xvars

\* The execute command failed, timed out or could not be started (lines
\* 345-350), then the cycle ends.
ExecuteFails ==
    /\ pc = "execute"
    /\ \E outcome \in CommandOutcomes \ {"exit0"}, valid_ok \in BOOLEAN :
         LET r == run_command(outcome)
             s1 == record_failure(state)
             e == end_of_cycle(s1, monitor_config, now, valid_ok)
         IN /\ ~ r.success
            /\ state' = e.state
            /\ saved' = cycle_file(saved, e.state, e.raised)
            /\ pc' = IF e.escapes THEN "crashed" ELSE "idle"
            /\ cyc' = [cyc EXCEPT !.outcome = "failed", !.done = TRUE,
                         !.saved = TRUE, !.raised = e.raised,
                         !.cmdok = r.success]
    /\ UNCHANGED <<monitor_config, now, sentinel, last_status_time, txseq, rec>> /\ UNCHANGED tvars /\ UNCHANGED xvars

\* The wall clock passes into the next hour (at any point of a cycle).
Tick ==
    /\ running
    /\ now < MaxClock
    /\ now' = now + 1
    /\ rec' = [rec EXCEPT !.hour = 0,
                          !.day = IF date_of(now + 1) # date_of(now) THEN 0 ELSE @]
    /\ UNCHANGED <<state, saved, monitor_config, pc, sentinel,
                   last_status_time, txseq, cyc>> /\ UNCHANGED tvars /\ UNCHANGED xvars

\* main(), 'stop' command (lines 662-666): the sentinel is created.
StopCommand ==
    /\ running
    /\ ~ sentinel
    /\ sentinel' = TRUE
    /\ UNCHANGED <<state, saved, monitor_config, pc, now, last_status_time,
                   txseq, cyc, rec>> /\ UNCHANGED tvars /\ UNCHANGED xvars

\* The operator removes the sentinel file.
RemoveSentinel ==
    /\ running
    /\ sentinel
    /\ sentinel' = FALSE
    /\ UNCHANGED <<state, saved, monitor_config, pc, now, last_status_time,
                   txseq, cyc, rec>> /\ UNCHANGED tvars /\ UNCHANGED xvars

signal_handler_returns(p) == p

\* _signal_handler, line 118: sys.exit(0) raises SystemExit at the point the
\* signal interrupted; nothing between there and the end of the process
\* catches it (run_once and _run_command catch Exception only).
after_signal(p) == "exited"

\* _signal_handler, lines 114-118: SIGINT or SIGTERM, during the sleep or at
\* any point of a cycle.  The state is saved as it is and the process exits;
\* a command in flight is killed by subprocess (sent: the execute command had
\* already sent its transaction), and what follows the call in the cycle is
\* not run.
SignalHandler ==
    /\ running
    /\ saved' = save_state(state)
    /\ pc' = after_signal(pc)
    /\ \E sent \in BOOLEAN :
         /\ sent => pc = "execute"
         /\ txseq' = IF sent THEN txseq + 1 ELSE txseq
         /\ cyc' = [cyc EXCEPT !.signal = pc, !.inflight_sent = sent,
                               !.txid = IF sent THEN txseq + 1 ELSE @]
    /\ UNCHANGED <<state, monitor_config, now, sentinel, last_status_time,
                   rec>> /\ UNCHANGED tvars /\ UNCHANGED xvars

MNext ==
    \/ CycleStart
    \/ EstopSleepDone
    \/ DryRunNotReady
    \/ DryRunReadyCapped
    \/ DryRunReadyExecute
    \/ \E found \in BOOLEAN : ExecuteSucceeds(found)
    \/ ExecuteFails
    \/ Tick
    \/ StopCommand
    \/ RemoveSentinel
    \/ SignalHandler

\* The manager and pipeline variables while only the monitor is modelled.
TIdle ==
    /\ config = NoneVal
    /\ balance = 0
    /\ plan = NoneVal
    /\ tpc = "off"
    /\ utxos = <<>>
    /\ pending = 0
    /\ queue = <<>>
    /\ tx = NoneVal
    /\ run = NoneVal
    /\ sel = NoneVal

Init == MInit /\ TIdle /\ XIdle

Next == MNext

Spec == Init /\ [][Next]_vars

\* ---------------------------------------------------------- SpecCycle
\* The monitor started on a state file left by an earlier run, with the
\* consolidation check off or on (MONITOR_CONSOLIDATE_INTERVAL, one hour).
CycleFiles ==
    {NoFile} \cup
    { save_state([default_state EXCEPT !.errors_count = e,
                                       !.last_consolidation = l]) :
        e \in {0, 2}, l \in {NoneVal, Malformed} }

CycleInit ==
    /\ saved \in CycleFiles
    /\ state = load_state(saved)
    /\ monitor_config \in [ max_distributions_per_hour : {1},
                            max_distributions_per_day  : {1},
                            consolidate_interval       : {0, 1} ]
    /\ pc = "idle"
    /\ now = 0
    /\ sentinel = FALSE
    /\ last_status_time = NoneVal
    /\ txseq = 0
    /\ cyc = NoCycle
    /\ rec = NoRecord
    /\ TIdle
    /\ XIdle

SpecCycle == CycleInit /\ [][Next]_vars

\* ---------------------------------------------------------- SpecRestart
\* The monitor is started again after it has exited: main(), lines 680-689,
\* builds a new DevFundMonitor, whose __init__ (line 63) loads the state file;
\* _last_status_time does not exist in the new process.
MaxRestarts == 1

RestartInit ==
    /\ state = default_state
    /\ saved = NoFile
    /\ monitor_config \in [ max_distributions_per_hour : {MaxPerHour},
                            max_distributions_per_day  : {MaxPerDay},
                            consolidate_interval       : {0} ]
    /\ pc = "idle"
    /\ now = 0
    /\ sentinel = FALSE
    /\ last_status_time = NoneVal
    /\ txseq = 0
    /\ cyc = NoCycle
    /\ rec = NoRecord
    /\ TIdle
    /\ XIdle

Restart ==
    /\ pc = "exited"
    /\ cyc.restarts < MaxRestarts
    /\ state' = load_state(saved)
    /\ pc' = "idle"
    /\ last_status_time' = NoneVal
    /\ cyc' = [cyc EXCEPT !.restarts = @ + 1, !.outcome = "restarted",
                          !.done = TRUE, !.signal = "none",
                          !.inflight_sent = FALSE]
    /\ UNCHANGED <<saved, monitor_config, now, sentinel, txseq, rec>>
    /\ UNCHANGED tvars /\ UNCHANGED xvars

\* The monitor with no emergency stop file, exiting on a signal and started
\* again.
RestartNext ==
    \/ CycleStart
    \/ DryRunNotReady
    \/ DryRunReadyCapped
    \/ DryRunReadyExecute
    \/ \E found \in BOOLEAN : ExecuteSucceeds(found)
    \/ ExecuteFails
    \/ Tick
    \/ SignalHandler
    \/ Restart

SpecRestart == RestartInit /\ [][RestartNext]_vars

\* ---------------------------------------------------------- SpecOnce
\* main(), lines 691-694: the 'once' command, given while a 'start' loop is
\* running.  It is a second process: DevFundMonitor.__init__ loads the state
\* file into a state of its own, run_once runs the same cycle, and the process
\* ends.  Nothing in main(), __init__ or run_once looks for another monitor.
OnceOff == [ pc |-> "off", state |-> default_state, execs |-> 0 ]

OnceInit ==
    /\ state = default_state
    /\ saved = NoFile
    /\ monitor_config \in [ max_distributions_per_hour : {1},
                            max_distributions_per_day  : {1, MaxPerDay},
                            consolidate_interval       : {0} ]
    /\ pc = "idle"
    /\ now = 0
    /\ sentinel = FALSE
    /\ last_status_time = NoneVal
    /\ txseq = 0
    /\ cyc = NoCycle
    /\ rec = NoRecord
    /\ TIdle
    /\ bc = NoneVal
    /\ gate = NoneVal
    /\ rt = NoneVal
    /\ once = OnceOff
    /\ mgr = NoneVal

\* __init__, line 63 (_load_state), then run_once, lines 442-448.
OnceStart ==
    /\ once.pc = "off"
    /\ LET s0 == load_state(saved)
           s1 == reset_hourly_counters(reset_daily_counters(s0, now), now)
       IN once' = [once EXCEPT !.state = s1,
                     !.pc = IF check_emergency_stop(sentinel)
                            THEN "estop_sleep" ELSE "dryrun"]
    /\ UNCHANGED mvars /\ UNCHANGED tvars /\ UNCHANGED <<bc, gate, rt, mgr>>

\* run_once, lines 447-448, then main() returns.
OnceEstopSleepDone ==
    /\ once.pc = "estop_sleep"
    /\ once' = [once EXCEPT !.pc = "exited"]
    /\ UNCHANGED mvars /\ UNCHANGED tvars /\ UNCHANGED <<bc, gate, rt, mgr>>

\* The end of the cycle of the second process: lines 476-491 on its own state,
\* written to the one state file.
OnceEnd(s, valid_ok) ==
    LET e == end_of_cycle(s, monitor_config, now, valid_ok)
    IN /\ saved' = cycle_file(saved, e.state, e.raised)
       /\ once' = [once EXCEPT !.state = e.state, !.pc = "exited"]

OnceDryRunNotReady ==
    /\ once.pc = "dryrun"
    /\ \E outcome \in CommandOutcomes, marker \in BOOLEAN, valid_ok \in BOOLEAN :
         /\ ~ (run_command(outcome).success /\ marker)
         /\ OnceEnd(once.state, valid_ok)
    /\ UNCHANGED <<state, monitor_config, pc, now, sentinel, last_status_time,
                   txseq, cyc, rec>> /\ UNCHANGED tvars /\ UNCHANGED <<bc, gate, rt, mgr>>

OnceDryRunReadyCapped ==
    /\ once.pc = "dryrun"
    /\ \/ hourly_limit_reached(once.state, monitor_config)
       \/ daily_limit_reached(once.state, monitor_config)
    /\ \E valid_ok \in BOOLEAN : OnceEnd(once.state, valid_ok)
    /\ UNCHANGED <<state, monitor_config, pc, now, sentinel, last_status_time,
                   txseq, cyc, rec>> /\ UNCHANGED tvars /\ UNCHANGED <<bc, gate, rt, mgr>>

OnceDryRunReadyExecute ==
    /\ once.pc = "dryrun"
    /\ ~ hourly_limit_reached(once.state, monitor_config)
    /\ ~ daily_limit_reached(once.state, monitor_config)
    /\ once' = [once EXCEPT !.pc = "execute", !.execs = @ + 1]
    /\ UNCHANGED mvars /\ UNCHANGED tvars /\ UNCHANGED <<bc, gate, rt, mgr>>

OnceExecuteSucceeds(found) ==
    /\ once.pc = "execute"
    /\ run_command("exit0").success
    /\ txseq' = txseq + 1
    /\ \E valid_ok \in BOOLEAN :
         OnceEnd(record_success(once.state, now,
                                IF found THEN txseq + 1 ELSE NoneVal), valid_ok)
    /\ UNCHANGED <<state, monitor_config, pc, now, sentinel, last_status_time,
                   cyc, rec>> /\ UNCHANGED tvars /\ UNCHANGED <<bc, gate, rt, mgr>>

OnceExecuteFails ==
    /\ once.pc = "execute"
    /\ \E outcome \in CommandOutcomes \ {"exit0"}, valid_ok \in BOOLEAN :
         /\ ~ run_command(outcome).success
         /\ OnceEnd(record_failure(once.state), valid_ok)
    /\ UNCHANGED <<state, monitor_config, pc, now, sentinel, last_status_time,
                   txseq, cyc, rec>> /\ UNCHANGED tvars /\ UNCHANGED <<bc, gate, rt, mgr>>

\* The two processes within one hour of the clock: the steps of the 'start'
\* loop, the sentinel and the signal, and the steps of the 'once' process.
OnceNext ==
    \/ CycleStart
    \/ EstopSleepDone
    \/ DryRunNotReady
    \/ DryRunReadyCapped
    \/ DryRunReadyExecute
    \/ \E found \in BOOLEAN : ExecuteSucceeds(found)
    \/ ExecuteFails
    \/ StopCommand
    \/ RemoveSentinel
    \/ SignalHandler
    \/ OnceStart
    \/ OnceEstopSleepDone
    \/ OnceDryRunNotReady
    \/ OnceDryRunReadyCapped
    \/ OnceDryRunReadyExecute
    \/ \E found \in BOOLEAN : OnceExecuteSucceeds(found)
    \/ OnceExecuteFails

SpecOnce == OnceInit /\ [][OnceNext]_vars

\* ---------------------------------------------------------- SpecState
\* The state dictionaries and state files _save_state and _load_state are
\* applied to: every kind of value in every field, the last_txid key present or
\* not, and files that do not exist, are unreadable, or lack keys.
MonitorStates ==
    LET base == [ last_distribution       : {NoneVal, 1},
                  last_consolidation      : {NoneVal, Malformed},
                  distributions_today     : {0, 2},
                  distributions_this_hour : {0, 1},
                  last_check_date         : {NoneVal, 0},
                  last_check_hour         : {NoneVal, 1},
                  total_distributions     : {0, 3},
                  total_consolidations    : {0},
                  last_balance            : {0},
                  errors_count            : {0, 1} ]
    IN base \cup
       { [ k \in DOMAIN s \cup {"last_txid"} |->
             IF k = "last_txid" THEN 1 ELSE s[k] ] : s \in base }

StateFiles ==
    { NoFile, Corrupt,
      [ distributions_today |-> json_dump_value("distributions_today", 1),
        last_check_date |-> json_dump_value("last_check_date", 0),
        last_txid |-> json_dump_value("last_txid", 2) ],
      [ total_distributions |-> json_dump_value("total_distributions", 2),
        last_distribution |-> json_dump_value("last_distribution", NoneVal) ] }

StateInit ==
    /\ state \in MonitorStates
    /\ saved \in StateFiles
    /\ rt = [ phase |-> "start", original |-> state, file |-> saved,
              wrote |-> FALSE ]
    /\ monitor_config = NoneVal
    /\ pc = "off"
    /\ now = 0
    /\ sentinel = FALSE
    /\ last_status_time = NoneVal
    /\ txseq = 0
    /\ cyc = NoCycle
    /\ rec = NoRecord
    /\ TIdle
    /\ bc = NoneVal
    /\ gate = NoneVal
    /\ once = NoneVal
    /\ mgr = NoneVal

\* _save_state, lines 206-214.  ok: the file could be opened and written; when
\* it could not, the exception is logged and the file stays as it was.
SaveState(ok) ==
    /\ rt.phase = "start"
    /\ saved' = IF ok THEN save_state(state) ELSE saved
    /\ rt' = [rt EXCEPT !.phase = "saved", !.wrote = ok]
    /\ UNCHANGED <<state, monitor_config, pc, now, sentinel, last_status_time,
                   txseq, cyc, rec, bc, gate, once, mgr>> /\ UNCHANGED tvars

\* _load_state, lines 175-204, in a process started on the file.
LoadState ==
    /\ rt.phase \in {"start", "saved"}
    /\ state' = load_state(saved)
    /\ rt' = [rt EXCEPT !.phase = "loaded"]
    /\ UNCHANGED <<saved, monitor_config, pc, now, sentinel, last_status_time,
                   txseq, cyc, rec, bc, gate, once, mgr>> /\ UNCHANGED tvars

StateNext == (\E ok \in BOOLEAN : SaveState(ok)) \/ LoadState

SpecState == StateInit /\ [][StateNext]_vars

\* ==================================================================
\* devfund_manager.py: configuration, calculator, readiness gate
\* ==================================================================

\* ------------------------------------------------------------------ bounds
MaxBalance == 750
MaxUtxos == 3

\* ------------------------------------------------------- program constants
base_size == 10
input_size == 295
output_size == 34
default_fee_rate == 10
min_relay_fee == 1000
dust_threshold == 546
select_fee_reserve == 5000
legacy_input_size == 148
legacy_output_size == 34
legacy_overhead == 10

Max(a, b) == IF a >= b THEN a ELSE b

\* int(x) of Python for x = a / b with b > 0: truncation toward zero.
int_div(a, b) == IF a >= 0 THEN a \div b ELSE -((-a) \div b)

RECURSIVE SeqSum(_)
SeqSum(s) == IF s = <<>> THEN 0 ELSE Head(s) + SeqSum(Tail(s))

validate_configuration_without_keys(c) ==
    /\ c.multisig_script_exists
    /\ c.redeem_script
    /\ c.liquidity_percent + c.dev_percent + c.marketing_percent = 100
    /\ ~ (c.minimum_balance_sats < 0)

\* validate_configuration, lines 191-217: TRUE when it raises nothing.
validate_configuration(c) ==
    /\ c.multisig_script_exists
    /\ c.redeem_script
    /\ c.signer1_wif /\ c.signer2_wif
    /\ c.liquidity_percent + c.dev_percent + c.marketing_percent = 100
    /\ ~ (c.minimum_balance_sats < 0)

\* int(estimated_size * 1.1)
estimate_transaction_size(num_inputs, num_outputs) ==
    int_div((base_size + num_inputs * input_size + num_outputs * output_size) * 11,
            10)

\* calculate_distribution, lines 266-270: int(fee_sats * 1.5)
fee_reserve(c) ==
    int_div(c.fee_rate * estimate_transaction_size(1, 3) * 3, 2)

total_reserve(c) == c.minimum_balance_sats + fee_reserve(c)

insufficient_balance_strict(c, total_balance) ==
    total_balance < total_reserve(c)

\* calculate_distribution, line 274
insufficient_balance(c, total_balance) ==
    total_balance <= total_reserve(c)

split_without_remainder(c, distributable) ==
    [ liquidity |-> int_div(distributable * c.liquidity_percent, 100),
      dev       |-> int_div(distributable * c.dev_percent, 100),
      marketing |-> int_div(distributable * c.marketing_percent, 100) ]

\* calculate_distribution, lines 289-297
split(c, distributable) ==
    LET liquidity_amount == int_div(distributable * c.liquidity_percent, 100)
        dev_amount       == int_div(distributable * c.dev_percent, 100)
        marketing_amount == int_div(distributable * c.marketing_percent, 100)
        remainder == distributable
                       - (liquidity_amount + dev_amount + marketing_amount)
    IN [ liquidity |-> liquidity_amount,
         dev       |-> dev_amount + remainder,
         marketing |-> marketing_amount ]

\* calculate_distribution: raised is TRUE when it raises ValueError.
calculate_distribution(c, total_balance) ==
    IF insufficient_balance(c, total_balance)
    THEN [ raised |-> TRUE, liquidity |-> 0, dev |-> 0, marketing |-> 0 ]
    ELSE LET amounts == split(c, total_balance - total_reserve(c))
         IN [ raised |-> FALSE, liquidity |-> amounts.liquidity,
              dev |-> amounts.dev, marketing |-> amounts.marketing ]

should_distribute_at_minimum(c, utxo_count, bal) ==
    /\ utxo_count >= c.threshold_utxo
    /\ bal >= c.threshold_balance_sats
    /\ bal >= c.minimum_balance_sats + c.min_distribution_amount

\* should_distribute, lines 314-320
should_distribute(c, utxo_count, bal) ==
    /\ utxo_count >= c.threshold_utxo
    /\ bal >= c.threshold_balance_sats
    /\ bal > c.minimum_balance_sats + c.min_distribution_amount

\* dict.get(key, 0) on a response: NoneVal stands for a missing key.
get_or_zero(v) == IF v = NoneVal THEN 0 ELSE v

\* get_address_info, lines 299-309, on the two responses.
get_address_info(utxos_data, balance_data) ==
    [ utxo_count |-> get_or_zero(utxos_data.total),
      balance    |-> get_or_zero(balance_data.funded_txo_sum)
                       - get_or_zero(balance_data.spent_txo_sum) ]

needs_fallback_always(primary_ok) == TRUE

\* api_call, lines 223-231: the fallback endpoint is queried when the primary
\* request raised (network error, HTTP error status, body that is not JSON).
\* fallback_api is never empty: _update_config_from_env ignores empty values.
needs_fallback(primary_ok) == ~ primary_ok

\* The monitor's variables while only the manager or the pipeline is modelled.
MIdle ==
    /\ state = default_state
    /\ saved = NoFile
    /\ monitor_config = NoneVal
    /\ pc = "off"
    /\ now = 0
    /\ sentinel = FALSE
    /\ last_status_time = NoneVal
    /\ txseq = 0
    /\ cyc = NoCycle
    /\ rec = NoRecord

\* ---------------------------------------------------------- SpecCalc
\* The configurations and balances calculate_distribution is applied to.
Percents == {-50, 0, 25, 33, 34, 50, 150, 200}
FeeRates == {0, 1}
MinimumBalances == {0, 50}

Configs ==
    [ liquidity_percent      : Percents,
      dev_percent            : Percents,
      marketing_percent      : Percents,
      fee_rate               : FeeRates,
      minimum_balance_sats   : MinimumBalances,
      threshold_utxo         : {1},
      threshold_balance_sats : {0},
      min_distribution_amount: {0},
      use_sendmany           : {TRUE},
      multisig_script_exists : {TRUE},
      redeem_script          : {TRUE},
      signer1_wif            : {TRUE},
      signer2_wif            : {TRUE} ]

CalcInit ==
    /\ MIdle
    /\ XIdle
    /\ config \in Configs
    /\ balance \in 0..MaxBalance
    /\ validate_configuration(config) \/ balance = 0
    /\ plan = NoneVal
    /\ tpc = "start"
    /\ utxos = <<>>
    /\ pending = 0
    /\ queue = <<>>
    /\ tx = NoneVal
    /\ run = NoneVal
    /\ sel = NoneVal

\* run(), lines 628-629 and 655-657: validate_configuration raises, exit 1.
ValidationFails ==
    /\ tpc = "start"
    /\ ~ validate_configuration(config)
    /\ tpc' = "invalid"
    /\ UNCHANGED <<config, balance, plan, utxos, pending, queue, tx, run, sel>>
    /\ UNCHANGED mvars /\ UNCHANGED xvars

\* calculate_distribution applied to the balance.
Calculate ==
    /\ tpc = "start"
    /\ validate_configuration(config)
    /\ plan' = calculate_distribution(config, balance)
    /\ tpc' = "calculated"
    /\ UNCHANGED <<config, balance, utxos, pending, queue, tx, run, sel>>
    /\ UNCHANGED mvars /\ UNCHANGED xvars

CalcNext == ValidationFails \/ Calculate

SpecCalc == CalcInit /\ [][CalcNext]_vars

\* ---------------------------------------------------------- SpecSize
\* estimate_transaction_size applied to input and output counts, and the fee
\* computed from it as calculate_distribution and execute_multisig_sendmany do
\* (fee_rate * estimated_tx_size).
MaxInputs == 7
MaxOutputs == 7
SizeFeeRates == {0, 1, 3}

SizeInit ==
    /\ MIdle
    /\ XIdle
    /\ config \in { c \in Configs : /\ c.fee_rate = 0
                                     /\ c.minimum_balance_sats = 0
                                     /\ c.liquidity_percent = 50
                                     /\ c.dev_percent = 25
                                     /\ c.marketing_percent = 25 }
    /\ balance = 0
    /\ plan = NoneVal
    /\ tpc = "start"
    /\ utxos = <<>>
    /\ pending = 0
    /\ queue = <<>>
    /\ tx = NoneVal
    /\ run = NoneVal
    /\ sel = NoneVal

EstimateSize(num_inputs, num_outputs, fee_rate) ==
    /\ tpc = "start"
    /\ LET estimated_tx_size == estimate_transaction_size(num_inputs, num_outputs)
       IN plan' = [ num_inputs |-> num_inputs, num_outputs |-> num_outputs,
                    fee_rate |-> fee_rate, size |-> estimated_tx_size,
                    fee_sats |-> fee_rate * estimated_tx_size ]
    /\ tpc' = "estimated"
    /\ UNCHANGED <<config, balance, utxos, pending, queue, tx, run, sel>>
    /\ UNCHANGED mvars /\ UNCHANGED xvars

SizeNext ==
    \E num_inputs \in 0..MaxInputs, num_outputs \in 0..MaxOutputs,
       fee_rate \in SizeFeeRates : EstimateSize(num_inputs, num_outputs, fee_rate)

SpecSize == SizeInit /\ [][SizeNext]_vars

\* ---------------------------------------------------------- SpecRun
\* One command of the distribution manager: DevFundManager.run(command).
Commands == {"dry-run", "config", "validate", "execute", "check-ready"}
RunSplits == { <<50, 25, 25>>, <<50, 25, 24>>, <<50, 30, 25>> }

RunConfigs ==
    { [ liquidity_percent      |-> s[1],
        dev_percent            |-> s[2],
        marketing_percent      |-> s[3],
        fee_rate               |-> 1,
        minimum_balance_sats   |-> m,
        threshold_utxo         |-> 1,
        threshold_balance_sats |-> 0,
        min_distribution_amount|-> 0,
        use_sendmany           |-> sm,
        multisig_script_exists |-> ex,
        redeem_script          |-> rs,
        signer1_wif            |-> k1,
        signer2_wif            |-> k2 ] :
      s \in RunSplits, m \in {-1, 0}, sm \in BOOLEAN, ex \in BOOLEAN,
      rs \in BOOLEAN, k1 \in BOOLEAN, k2 \in BOOLEAN }

\* What get_address_info gives: ok = FALSE when the API call raises APIError.
AddressInfos ==
    { [ ok |-> FALSE, utxo_count |-> 0, balance |-> 0 ] }
    \cup [ ok : {TRUE}, utxo_count : {0, 1}, balance : {500, MaxBalance} ]

RunInit ==
    /\ MIdle
    /\ TIdle
    /\ bc = NoneVal
    /\ gate = NoneVal
    /\ rt = NoneVal
    /\ once = NoneVal
    /\ mgr \in [ command : Commands, config : RunConfigs, pc : {"start"},
                  validated : {FALSE}, queries : {0}, txs : {0},
                  asked : {FALSE}, ready : {FALSE}, planned : {0},
                  success_count : {0}, failures : {0}, exit_code : {NoneVal} ]

Exit(m, code) == [m EXCEPT !.pc = "exited", !.exit_code = code]

\* should_distribute, lines 311-322, on what get_address_info gave: an
\* APIError is caught and the answer is (False, 0, 0).
gate_answer(c, info) ==
    info.ok /\ should_distribute(c, info.utxo_count, info.balance)

distribution_succeeded_partly(use_sendmany, success_count) == success_count >= 1

\* execute_distribution, lines 499-504 and 521-526: the value it returns after
\* the transaction commands.
distribution_succeeded(use_sendmany, success_count) ==
    IF use_sendmany THEN success_count = 1 ELSE success_count = 3

\* run(), lines 628-630 and 655-657: load_environment (no query), then
\* validate_configuration; ValidationError is caught and the process exits 1.
RunValidate ==
    /\ mgr.pc = "start"
    /\ mgr' = IF validate_configuration(mgr.config)
              THEN [mgr EXCEPT !.pc = "validated", !.validated = TRUE]
              ELSE Exit(mgr, 1)
    /\ UNCHANGED mvars /\ UNCHANGED tvars /\ UNCHANGED <<bc, gate, rt, once>>

\* run(), lines 634-637: show_config / validate; run returns, exit status 0.
RunShow ==
    /\ mgr.pc = "validated"
    /\ mgr.command \in {"config", "validate"}
    /\ mgr' = Exit(mgr, 0)
    /\ UNCHANGED mvars /\ UNCHANGED tvars /\ UNCHANGED <<bc, gate, rt, once>>

\* run(), lines 632-633, and dry_run, lines 538-586: one fetch of the address
\* information, nothing is sent; run returns, exit status 0.
RunDryRun(info) ==
    /\ mgr.pc = "validated"
    /\ mgr.command = "dry-run"
    /\ mgr' = Exit([mgr EXCEPT !.queries = @ + 1], 0)
    /\ UNCHANGED mvars /\ UNCHANGED tvars /\ UNCHANGED <<bc, gate, rt, once>>

\* run(), lines 644-651: check-ready.
RunCheckReady(info) ==
    /\ mgr.pc = "validated"
    /\ mgr.command = "check-ready"
    /\ LET should_dist == gate_answer(mgr.config, info)
       IN mgr' = Exit([mgr EXCEPT !.queries = @ + 1, !.asked = TRUE,
                                  !.ready = should_dist],
                      IF should_dist THEN 0 ELSE 1)
    /\ UNCHANGED mvars /\ UNCHANGED tvars /\ UNCHANGED <<bc, gate, rt, once>>

\* run(), lines 638-643, and execute_distribution, lines 476-497: the gate,
\* then the plan; False (exit 1) when the gate refuses or the calculation
\* raises ValueError.
RunExecute(info) ==
    /\ mgr.pc = "validated"
    /\ mgr.command = "execute"
    /\ LET should_dist == gate_answer(mgr.config, info)
           m == [mgr EXCEPT !.queries = @ + 1, !.asked = TRUE,
                            !.ready = should_dist]
       IN mgr' = IF ~ should_dist
                 THEN Exit(m, 1)
                 ELSE IF calculate_distribution(mgr.config, info.balance).raised
                 THEN Exit(m, 1)
                 ELSE [m EXCEPT !.pc = "sending",
                          !.planned = IF mgr.config.use_sendmany THEN 1 ELSE 3]
    /\ UNCHANGED mvars /\ UNCHANGED tvars /\ UNCHANGED <<bc, gate, rt, once>>

\* execute_distribution, lines 492-526: one transaction command (sendmany, or
\* one of the three auto commands) returned; after the last one the run ends.
RunSend(ok) ==
    /\ mgr.pc = "sending"
    /\ LET m == [mgr EXCEPT !.txs = @ + 1,
                            !.success_count = IF ok THEN @ + 1 ELSE @,
                            !.failures = IF ok THEN @ ELSE @ + 1]
       IN mgr' = IF m.txs < m.planned
                 THEN m
                 ELSE Exit(m, IF distribution_succeeded(m.config.use_sendmany,
                                                        m.success_count)
                              THEN 0 ELSE 1)
    /\ UNCHANGED mvars /\ UNCHANGED tvars /\ UNCHANGED <<bc, gate, rt, once>>

RunNext ==
    \/ RunValidate
    \/ RunShow
    \/ \E info \in AddressInfos : RunDryRun(info)
    \/ \E info \in AddressInfos : RunCheckReady(info)
    \/ \E info \in AddressInfos : RunExecute(info)
    \/ \E ok \in BOOLEAN : RunSend(ok)

SpecRun == RunInit /\ [][RunNext]_vars

\* ---------------------------------------------------------- SpecReady
\* run_once of monitor.py with the dry-run command of devfund_manager.py as
\* its devfund_script.  A line of output is the sequence of its pieces: a
\* character outside ASCII is one piece, named by its code point, and a run of
\* ASCII text is one piece.

\* dry_run, line 558: the line logged when the three conditions hold.
thresholds_met_line ==
    << "U+201A", "U+00FA", "U+00EC", " Thresholds met - distribution would occur" >>

\* dry_run, line 577: the line logged otherwise.
thresholds_not_met_line ==
    << "U+201A", "U+00FA", "U+00F3", " Thresholds not met - no action would be taken" >>

\* _check_ready_for_distribution, line 290: the string looked for.
readiness_marker ==
    << "U+2713", " Thresholds met - distribution would occur" >>

\* needle in output, for a needle without a line break.
in_output(needle, output) ==
    \E i \in DOMAIN output :
      \E k \in 0..(Len(output[i]) - Len(needle)) :
        SubSeq(output[i], k + 1, k + Len(needle)) = needle

\* dry_run, lines 538-586: the lines that matter to the monitor; an APIError
\* is logged and dry_run returns.
dry_run(c, info) ==
    IF ~ info.ok
    THEN <<>>
    ELSE LET utxo_met == info.utxo_count >= c.threshold_utxo
             balance_met == info.balance >= c.threshold_balance_sats
             distributable_check ==
                 info.balance > c.minimum_balance_sats + c.min_distribution_amount
         IN IF utxo_met /\ balance_met /\ distributable_check
            THEN << thresholds_met_line >>
            ELSE << thresholds_not_met_line >>

\* _run_command, lines 241-277, on the dry-run process: run(), lines 628-633
\* and 655-657, exits 1 when validate_configuration raises.
dry_run_command(c, info, outcome) ==
    LET exit0 == outcome = "exit0" /\ validate_configuration(c)
        seen == IF exit0 THEN "exit0"
                ELSE IF outcome = "exit0" THEN "nonzero" ELSE outcome
    IN [ success |-> run_command(seen).success,
         output |-> IF exit0 THEN dry_run(c, info) ELSE <<>> ]

\* _check_ready_for_distribution, lines 279-292
check_ready_for_distribution(r) ==
    r.success /\ in_output(readiness_marker, r.output)

ReadyCounters ==
    { [default_state EXCEPT !.distributions_this_hour = h,
                            !.distributions_today = d,
                            !.total_distributions = d,
                            !.last_check_date = date_of(0),
                            !.last_check_hour = 0] :
      h \in 0..1, d \in 1..2 } \cup {default_state}

ReadyConfigs ==
    [ liquidity_percent      : {50},
      dev_percent            : {25},
      marketing_percent      : {25},
      fee_rate               : {1},
      minimum_balance_sats   : {0},
      threshold_utxo         : {1, 2},
      threshold_balance_sats : {0, 600},
      min_distribution_amount: {0, 500},
      use_sendmany           : {TRUE},
      multisig_script_exists : {TRUE},
      redeem_script          : {TRUE},
      signer1_wif            : BOOLEAN,
      signer2_wif            : {TRUE} ]

NoDryRun == [ api_ok |-> FALSE, success |-> FALSE, output |-> <<>> ]

\* The monitor starts with the counters of its state file; the treasury and the
\* manager's configuration stay as they are over the cycles.
ReadyInit ==
    /\ state \in ReadyCounters
    /\ saved = save_state(state)
    /\ monitor_config \in [ max_distributions_per_hour : 0..MaxPerHour,
                            max_distributions_per_day  : 0..MaxPerDay,
                            consolidate_interval       : {0} ]
    /\ pc = "idle"
    /\ now = 0
    /\ sentinel \in BOOLEAN
    /\ last_status_time = NoneVal
    /\ txseq = 0
    /\ cyc = NoCycle
    /\ rec = NoRecord
    /\ config \in ReadyConfigs
    /\ utxos \in { <<>>, <<500>>, <<750>>, <<500, 500>> }
    /\ balance = SeqSum(utxos)
    /\ plan = NoneVal
    /\ tpc = "off"
    /\ pending = 0
    /\ queue = <<>>
    /\ tx = NoneVal
    /\ run = NoneVal
    /\ sel = NoneVal
    /\ bc = NoneVal
    /\ gate = NoneVal
    /\ rt = NoneVal
    /\ once = NoneVal
    /\ mgr = NoDryRun

\* run_once, lines 450-474, and _execute_distribution, lines 294-310: the
\* dry-run command returns; when its output holds the readiness marker and no
\* cap is met the execute command is started, when a cap is met the cycle
\* ends, and without the marker the status is shown when due and the cycle ends.
ReadyCheck(api_ok, outcome, valid_ok) ==
    /\ pc = "dryrun"
    /\ LET info == [ ok |-> api_ok,
                     utxo_count |-> IF api_ok THEN Len(utxos) ELSE 0,
                     balance |-> IF api_ok THEN balance ELSE 0 ]
           r == dry_run_command(config, info, outcome)
           ready == check_ready_for_distribution(r)
           capped == \/ hourly_limit_reached(state, monitor_config)
                     \/ daily_limit_reached(state, monitor_config)
           e == end_of_cycle(state, monitor_config, now, valid_ok)
       IN /\ mgr' = [ api_ok |-> api_ok, success |-> r.success,
                      output |-> r.output ]
          /\ IF ready /\ ~ capped
             THEN /\ pc' = "execute"
                  /\ cyc' = [cyc EXCEPT !.ready = TRUE, !.execs = @ + 1,
                               !.capmet = CapMet(state, monitor_config)]
                  /\ UNCHANGED <<state, saved, last_status_time>>
             ELSE /\ state' = e.state
                  /\ saved' = cycle_file(saved, e.state, e.raised)
                  /\ pc' = IF e.escapes THEN "crashed" ELSE "idle"
                  /\ cyc' = [cyc EXCEPT !.ready = ready,
                               !.outcome = IF ready THEN "capped" ELSE "notready",
                               !.done = TRUE,
                               !.capmet = CapMet(state, monitor_config),
                               !.dryruns = IF ~ ready /\ status_due(now)
                                           THEN @ + 1 ELSE @,
                               !.saved = TRUE, !.raised = e.raised,
                               !.cmdok = r.success]
                  /\ last_status_time' = IF ~ ready /\ status_due(now)
                                         THEN now ELSE last_status_time
    /\ UNCHANGED <<monitor_config, now, sentinel, txseq, rec>>
    /\ UNCHANGED tvars /\ UNCHANGED <<bc, gate, rt, once>>

ReadyNext ==
    \/ CycleStart
    \/ EstopSleepDone
    \/ \E api_ok \in BOOLEAN, outcome \in CommandOutcomes, valid_ok \in BOOLEAN :
         ReadyCheck(api_ok, outcome, valid_ok)

SpecReady == ReadyInit /\ [][ReadyNext]_vars

\* ---------------------------------------------------------- SpecFunds
\* run_once of monitor.py with the execute command of devfund_manager.py: the
\* command broadcasts sent of its planned transactions and counts
\* success_count of them as successful (a transaction command that timed out
\* after its broadcast is counted as failed), unless the monitor's timeout of
\* 600 s ends the command first.

\* execute_distribution, lines 493-515: one transaction or three.
planned_transactions(use_sendmany) == IF use_sendmany THEN 1 ELSE 3

\* run(), lines 638-643, and _run_command, lines 254-277: what the monitor
\* sees of the execute command.
execute_command(use_sendmany, success_count, timed_out) ==
    IF timed_out THEN "timeout"
    ELSE IF distribution_succeeded(use_sendmany, success_count) THEN "exit0"
    ELSE "nonzero"

FundsInit ==
    /\ MInit
    /\ TIdle
    /\ bc = NoneVal
    /\ gate = NoneVal
    /\ rt = NoneVal
    /\ once = NoneVal
    /\ mgr \in [ use_sendmany : BOOLEAN, sent : {0}, success_count : {0},
                 timed_out : {FALSE} ]

\* _execute_distribution, lines 306-350, then the end of run_once: the execute
\* command returned or timed out.
FundsExecute(sent, success_count, timed_out, found, valid_ok) ==
    /\ pc = "execute"
    /\ success_count <= sent
    /\ sent <= planned_transactions(mgr.use_sendmany)
    /\ LET outcome == execute_command(mgr.use_sendmany, success_count, timed_out)
           r == run_command(outcome)
           txid == IF found THEN txseq + 1 ELSE NoneVal
           s1 == IF r.success THEN record_success(state, now, txid)
                 ELSE record_failure(state)
           e == end_of_cycle(s1, monitor_config, now, valid_ok)
       IN /\ found => r.success
          /\ state' = e.state
          /\ saved' = cycle_file(saved, e.state, e.raised)
          /\ pc' = IF e.escapes THEN "crashed" ELSE "idle"
          /\ cyc' = [cyc EXCEPT !.outcome = IF r.success THEN "success" ELSE "failed",
                       !.done = TRUE, !.saved = TRUE, !.raised = e.raised,
                       !.rectime = IF r.success THEN now ELSE @,
                       !.txid = IF r.success THEN txseq + 1 ELSE @,
                       !.cmdok = r.success]
          /\ txseq' = IF r.success THEN txseq + 1 ELSE txseq
          /\ rec' = IF r.success THEN RecordDistribution(rec, cyc.start) ELSE rec
    /\ mgr' = [mgr EXCEPT !.sent = sent, !.success_count = success_count,
                          !.timed_out = timed_out]
    /\ UNCHANGED <<monitor_config, now, sentinel, last_status_time>>
    /\ UNCHANGED tvars /\ UNCHANGED <<bc, gate, rt, once>>

FundsNext ==
    \/ CycleStart
    \/ DryRunNotReady
    \/ DryRunReadyCapped
    \/ DryRunReadyExecute
    \/ \E sent \in 0..3, success_count \in 0..3, timed_out \in BOOLEAN,
          found \in BOOLEAN, valid_ok \in BOOLEAN :
         FundsExecute(sent, success_count, timed_out, found, valid_ok)
    \/ Tick

SpecFunds == FundsInit /\ [][FundsNext]_vars

\* ---------------------------------------------------------- SpecGate
\* One call of should_distribute: two api_call fetches, each on the primary
\* endpoint and, when needed, on the fallback endpoint.
GateConfigs ==
    [ threshold_utxo          : {1, 2},
      threshold_balance_sats  : {0, 5},
      minimum_balance_sats    : {0, 2},
      min_distribution_amount : {0, 3} ]

\* What the service holds for the address; NoneVal: the key is missing.
AddressData ==
    [ total : {NoneVal, 0, 1, 2}, funded_txo_sum : {NoneVal, 5, 9},
      spent_txo_sum : {NoneVal, 0, 4, 6} ]

NoGateResult == [ ready |-> FALSE, utxo_count |-> 0, balance |-> 0,
                  failed |-> FALSE, raised |-> FALSE ]

GateInit ==
    /\ MIdle
    /\ config \in GateConfigs
    /\ \E d \in AddressData :
         gate = [ pc |-> "utxo_primary", data |-> d, queries |-> <<>>,
                  result |-> NoGateResult ]
    /\ balance = 0
    /\ plan = NoneVal
    /\ tpc = "off"
    /\ utxos = <<>>
    /\ pending = 0
    /\ queue = <<>>
    /\ tx = NoneVal
    /\ run = NoneVal
    /\ sel = NoneVal
    /\ bc = NoneVal
    /\ rt = NoneVal
    /\ once = NoneVal
    /\ mgr = NoneVal

\* should_distribute, lines 312-320, once both fetches have returned.
GateDecision(g) ==
    LET info == get_address_info(g.data, g.data)
    IN [ ready |-> should_distribute(config, info.utxo_count, info.balance),
         utxo_count |-> info.utxo_count, balance |-> info.balance,
         failed |-> FALSE, raised |-> FALSE ]

\* The fetch on an endpoint returned: the next fetch, or the decision.
GateAfterFetch(g, fetch) ==
    IF fetch = "utxo"
    THEN [g EXCEPT !.pc = "balance_primary"]
    ELSE [g EXCEPT !.pc = "done", !.result = GateDecision(g)]

\* api_call, lines 223-226: the request to the primary endpoint.
ApiPrimary(ok) ==
    /\ gate.pc \in {"utxo_primary", "balance_primary"}
    /\ LET fetch == IF gate.pc = "utxo_primary" THEN "utxo" ELSE "balance"
           g == [gate EXCEPT !.queries = Append(@, <<fetch, "primary", ok>>)]
       IN gate' = IF needs_fallback(ok)
                  THEN [g EXCEPT !.pc = IF fetch = "utxo" THEN "utxo_fallback"
                                        ELSE "balance_fallback"]
                  ELSE GateAfterFetch(g, fetch)
    /\ UNCHANGED <<config, balance, plan, tpc, utxos, pending, queue, tx, run,
                   sel, bc, rt, once, mgr>>
    /\ UNCHANGED mvars

\* api_call, lines 228-237: the request to the fallback endpoint; when it
\* fails too, APIError is raised and should_distribute (lines 321-322) returns
\* (False, 0, 0).
ApiFallback(ok) ==
    /\ gate.pc \in {"utxo_fallback", "balance_fallback"}
    /\ LET fetch == IF gate.pc = "utxo_fallback" THEN "utxo" ELSE "balance"
           g == [gate EXCEPT !.queries = Append(@, <<fetch, "fallback", ok>>)]
       IN gate' = IF ok
                  THEN GateAfterFetch(g, fetch)
                  ELSE [g EXCEPT !.pc = "done",
                                 !.result = [ ready |-> FALSE, utxo_count |-> 0,
                                              balance |-> 0, failed |-> TRUE,
                                              raised |-> FALSE ]]
    /\ UNCHANGED <<config, balance, plan, tpc, utxos, pending, queue, tx, run,
                   sel, bc, rt, once, mgr>>
    /\ UNCHANGED mvars

GateNext ==
    \/ \E ok \in BOOLEAN : ApiPrimary(ok)
    \/ \E ok \in BOOLEAN : ApiFallback(ok)

SpecGate == GateInit /\ [][GateNext]_vars

\* ==================================================================
\* multisig_op.py: UTXO selection
\* ==================================================================

RECURSIVE insert_desc(_, _)
insert_desc(x, s) ==
    IF s = <<>> THEN <<x>>
    ELSE IF x > Head(s) THEN <<x>> \o s
    ELSE <<Head(s)>> \o insert_desc(x, Tail(s))

\* sorted(utxos, key=amount, reverse=True), line 298
RECURSIVE sorted_desc(_)
sorted_desc(s) ==
    IF s = <<>> THEN <<>>
    ELSE LET k == Len(s)
         IN insert_desc(s[k], sorted_desc(SubSeq(s, 1, k - 1)))

accumulate_without_break(sorted_utxos, i, total_input_sats, target_with_fee) ==
    [ count |-> Len(sorted_utxos), total |-> SeqSum(sorted_utxos) ]

\* The loop of select_utxos, lines 303-309, from the i-th sorted UTXO on.
RECURSIVE accumulate(_, _, _, _)
accumulate(sorted_utxos, i, total_input_sats, target_with_fee) ==
    IF i > Len(sorted_utxos)
    THEN [ count |-> Len(sorted_utxos), total |-> total_input_sats ]
    ELSE LET total == total_input_sats + sorted_utxos[i]
         IN IF total >= target_with_fee
            THEN [ count |-> i, total |-> total ]
            ELSE accumulate(sorted_utxos, i + 1, total, target_with_fee)

insufficient_funds_with_fee(total_input_sats, target_sats, target_with_fee) ==
    total_input_sats < target_with_fee

\* select_utxos, line 311
insufficient_funds(total_input_sats, target_sats, target_with_fee) ==
    total_input_sats < target_sats

\* select_utxos: raised is TRUE when it raises MultisigError.
select_utxos(candidates, target_sats, reserve) ==
    LET target_with_fee == target_sats + reserve
        sorted_utxos == sorted_desc(candidates)
        acc == accumulate(sorted_utxos, 1, 0, target_with_fee)
    IN [ raised   |-> insufficient_funds(acc.total, target_sats, target_with_fee),
         selected |-> SubSeq(sorted_utxos, 1, acc.count),
         total_input_sats |-> acc.total ]

\* ---------------------------------------------------------- SpecSelect
UtxoValues == {1000, 3000, 6000}
Targets == {0, 1000, 2000, 4000, 5000, 7000, 10000, 13000, 19000}

RECURSIVE SeqsUpTo(_, _)
SeqsUpTo(S, n) ==
    IF n = 0 THEN {<<>>}
    ELSE LET shorter == SeqsUpTo(S, n - 1)
         IN shorter \cup {Append(s, x) : s \in shorter, x \in S}

SelectInit ==
    /\ MIdle
    /\ XIdle
    /\ config = NoneVal
    /\ balance = 0
    /\ plan = NoneVal
    /\ tpc = "select"
    /\ utxos = <<>>
    /\ pending = 0
    /\ queue = <<>>
    /\ tx = NoneVal
    /\ run = NoneVal
    /\ sel \in [ utxos : SeqsUpTo(UtxoValues, MaxUtxos), target : Targets,
                 result : {NoneVal} ]

\* select_utxos applied to the candidates and the target.
Select ==
    /\ tpc = "select"
    /\ sel' = [sel EXCEPT
                 !.result = select_utxos(sel.utxos, sel.target, select_fee_reserve)]
    /\ tpc' = "selected"
    /\ UNCHANGED <<config, balance, plan, utxos, pending, queue, tx, run>>
    /\ UNCHANGED mvars /\ UNCHANGED xvars

SelectNext == Select

SpecSelect == SelectInit /\ [][SelectNext]_vars

\* ==================================================================
\* multisig_op.py: building a transaction; devfund_manager.py: the execute run
\* ==================================================================

\* int(Decimal(amount) * 100000000) for an amount of the given number of sats.
\* In sendmany mode the amount arrives as a binary float (json.loads), which is
\* below the decimal amount for about half of all amounts (0.29 JKC gives
\* 28999999 sats): loss is 1 for those and 0 for the others.  In per-recipient
\* mode the amount arrives as a decimal string and loss is 0.
to_sats(amount, loss) == amount - loss

\* validate_amount, lines 208-218
validate_amount(amount, loss) ==
    /\ ~ (amount <= 0)
    /\ ~ (to_sats(amount, loss) < dust_threshold)

\* estimate_fee, lines 316-322
estimate_fee(input_count, output_count) ==
    Max((input_count * legacy_input_size + output_count * legacy_output_size
           + legacy_overhead) * default_fee_rate,
        min_relay_fee)

change_is_significant_at_dust(change_sats) == change_sats >= dust_threshold

\* create_and_sign_transaction, line 420
change_is_significant(change_sats) == change_sats > dust_threshold

\* create_and_sign_transaction, lines 371-461, on the candidates listunspent
\* returned.  losses and total_loss are the float losses of the recipients'
\* amounts and of their sum; complete is the signer's answer.  raised is TRUE
\* when it raises MultisigError.  fee_rate is the --fee-rate argument.
\* fetched says that get_utxos was called (line 387), signer_called that the
\* createrawtransaction and signing commands were run (lines 430-452).
create_and_sign_transaction(candidates, recipients, fee_rate, losses, total_loss, complete) ==
    LET amounts_valid ==
            \A i \in 1..Len(recipients) : validate_amount(recipients[i], losses[i])
        total_send_sats == to_sats(SeqSum(recipients), total_loss)
        picked == select_utxos(candidates, total_send_sats, select_fee_reserve)
        output_count == Len(recipients) + 1
        estimated_fee ==
            Max(estimate_fee(Len(picked.selected), output_count), min_relay_fee)
        change_sats == picked.total_input_sats - total_send_sats - estimated_fee
        has_change == change_is_significant(change_sats)
        sorted_utxos == sorted_desc(candidates)
    IN [ raised |-> \/ ~ amounts_valid
                    \/ candidates = <<>>
                    \/ picked.raised
                    \/ ~ complete,
         inputs |-> picked.selected,
         unselected |-> SubSeq(sorted_utxos, Len(picked.selected) + 1,
                               Len(sorted_utxos)),
         total_input_sats |-> picked.total_input_sats,
         total_send_sats |-> total_send_sats,
         estimated_fee |-> estimated_fee,
         change_sats |-> change_sats,
         change_output |-> IF has_change THEN change_sats ELSE 0,
         outputs_total |-> SeqSum(recipients)
                             + (IF has_change THEN change_sats ELSE 0),
         recipients |-> recipients,
         fee_rate |-> fee_rate,
         fetched |-> amounts_valid,
         signer_called |-> amounts_valid /\ candidates # <<>> /\ ~ picked.raised ]

\* ---------------------------------------------------------- SpecBuild
\* create_and_sign_transaction applied to the UTXOs listunspent returned, the
\* recipients' amounts and a --fee-rate argument.
BuildUtxoValues == {1000, 3806, 3807, 9000}
BuildAmounts == {0, 545, 546, 1000}
BuildFeeRates == {1, 100}
MaxRecipients == 2

BuildInit ==
    /\ MIdle
    /\ XIdle
    /\ config = NoneVal
    /\ balance = 0
    /\ plan = NoneVal
    /\ tpc = "build"
    /\ utxos \in SeqsUpTo(BuildUtxoValues, 2)
    /\ pending = 0
    /\ queue \in { << r >> : r \in SeqsUpTo(BuildAmounts, MaxRecipients) \ {<<>>} }
    /\ tx = NoneVal
    /\ run = NoneVal
    /\ sel = NoneVal

Build(fee_rate, losses, total_loss, complete) ==
    /\ tpc = "build"
    /\ tx' = create_and_sign_transaction(utxos, Head(queue), fee_rate, losses,
                                         total_loss, complete)
    /\ tpc' = "built"
    /\ UNCHANGED <<config, balance, plan, utxos, pending, queue, run, sel>>
    /\ UNCHANGED mvars /\ UNCHANGED xvars

\* Every fee rate, float loss and signer answer: the sum loses a sat only if
\* some amount does, and loses one if all do.
BuildNext ==
    \E fee_rate \in BuildFeeRates, complete \in BOOLEAN, total_loss \in 0..1 :
      \E losses \in [1..Len(Head(queue)) -> {0, 1}] :
        /\ \E i \in DOMAIN losses : losses[i] = total_loss
        /\ Build(fee_rate, losses, total_loss, complete)

SpecBuild == BuildInit /\ [][BuildNext]_vars

\* execute_multisig_sendmany, line 335, and execute_multisig_transaction,
\* line 431: the --fee-rate argument.
fee_rate_argument(c) ==
    IF c.use_sendmany THEN int_div(c.fee_rate * 3, 2) ELSE c.fee_rate

\* execute_distribution, lines 493-515: the transactions to send.
transactions(c, p) ==
    IF c.use_sendmany
    THEN << <<p.liquidity, p.dev, p.marketing>> >>
    ELSE << <<p.liquidity>>, <<p.dev>>, <<p.marketing>> >>

\* ---------------------------------------------------------- SpecTx
TxFeeRates == {1, 100}
TxMinimumBalances == {0, 100000}
TxDeltas == {2183, 2184, 2185, 3000, 20000}
TxSplits == { <<50, 25, 25>>, <<34, 33, 33>>, <<50, 25, 24>> }

TxConfigs ==
    { [ liquidity_percent      |-> s[1],
        dev_percent            |-> s[2],
        marketing_percent      |-> s[3],
        fee_rate               |-> f,
        minimum_balance_sats   |-> m,
        threshold_utxo         |-> tu,
        threshold_balance_sats |-> 0,
        min_distribution_amount|-> md,
        use_sendmany           |-> sm,
        multisig_script_exists |-> TRUE,
        redeem_script          |-> TRUE,
        signer1_wif            |-> TRUE,
        signer2_wif            |-> TRUE ] :
      s \in TxSplits, f \in TxFeeRates, m \in TxMinimumBalances,
      tu \in {1, 2}, md \in {0, 5000}, sm \in BOOLEAN }

\* The treasury as one, two or three UTXOs of total value b.
Layouts(b) ==
    { <<b>>, <<b - 3000, 3000>>, <<b - 1200, 600, 600>> }

\* execute_distribution, lines 516-521: time.sleep(5) follows an attempt of the
\* per-recipient loop only inside the if of a successful transaction.
sleeps_after(use_sendmany, ok) == ~ use_sendmany /\ ok

\* log is the sequence of attempts made: the recipients' amounts, whether the
\* command succeeded, and whether the loop slept after it.
NoRun ==
    [ paid |-> 0, fees |-> 0, success_count |-> 0, attempts |-> 0,
      success |-> FALSE, log |-> <<>> ]

TxInit ==
    /\ MIdle
    /\ XIdle
    /\ config \in TxConfigs
    /\ \E d \in TxDeltas : utxos \in Layouts(total_reserve(config) + d)
    /\ balance = SeqSum(utxos)
    /\ plan = NoneVal
    /\ tpc = "start"
    /\ pending = 0
    /\ queue = <<>>
    /\ tx = NoneVal
    /\ run = NoRun
    /\ sel = NoneVal

\* execute_distribution, lines 476-479 and 531-533: the readiness gate refuses
\* (api_ok = FALSE: the address info could not be fetched), or
\* calculate_distribution raises: the run fails.
ExecuteAborts(api_ok) ==
    /\ tpc = "start"
    /\ validate_configuration(config)
    /\ LET utxo_count == IF api_ok THEN Len(utxos) ELSE 0
           bal == IF api_ok THEN SeqSum(utxos) ELSE 0
       IN \/ ~ should_distribute(config, utxo_count, bal)
          \/ calculate_distribution(config, bal).raised
    /\ tpc' = "done"
    /\ run' = [run EXCEPT !.success = FALSE]
    /\ UNCHANGED <<config, balance, plan, utxos, pending, queue, tx, sel>>
    /\ UNCHANGED mvars /\ UNCHANGED xvars

\* execute_distribution, lines 476-515: the gate is passed and the plan is made.
ExecutePlans ==
    /\ tpc = "start"
    /\ validate_configuration(config)
    /\ should_distribute(config, Len(utxos), SeqSum(utxos))
    /\ ~ calculate_distribution(config, SeqSum(utxos)).raised
    /\ plan' = calculate_distribution(config, SeqSum(utxos))
    /\ queue' = transactions(config, plan')
    /\ tpc' = "sending"
    /\ UNCHANGED <<config, balance, utxos, pending, tx, run, sel>>
    /\ UNCHANGED mvars /\ UNCHANGED xvars

Losses(n) == [1..n -> {0, 1}]

\* One sendmany or auto command of multisig_op.py: build, sign, broadcast.
\* accepted is the network's answer to the broadcast; a transaction whose
\* outputs exceed its inputs is never accepted.
SendTransaction(losses, total_loss, complete, accepted) ==
    /\ tpc = "sending"
    /\ queue # <<>>
    /\ config.use_sendmany \/ (total_loss = 0 /\ \A i \in DOMAIN losses : losses[i] = 0)
    /\ LET recipients == Head(queue)
           built == create_and_sign_transaction(utxos, recipients,
                       fee_rate_argument(config), losses, total_loss, complete)
           ok == /\ ~ built.raised
                 /\ accepted
                 /\ built.total_input_sats >= built.outputs_total
           count == run.success_count + (IF ok THEN 1 ELSE 0)
           last == Tail(queue) = <<>>
       IN /\ tx' = [built EXCEPT !.raised = ~ ok]
          /\ utxos' = IF ok THEN built.unselected ELSE utxos
          /\ pending' = IF ok THEN pending + built.change_output ELSE pending
          /\ run' = [ paid |-> run.paid + (IF ok THEN SeqSum(recipients) ELSE 0),
                      fees |-> run.fees + (IF ok THEN built.total_input_sats
                                                     - built.outputs_total
                                           ELSE 0),
                      success_count |-> count,
                      attempts |-> run.attempts + 1,
                      success |-> last /\ count = run.attempts + 1,
                      log |-> Append(run.log,
                                [ recipients |-> recipients,
                                  ok |-> ok,
                                  slept |-> sleeps_after(config.use_sendmany, ok) ]) ]
          /\ queue' = Tail(queue)
          /\ tpc' = IF last THEN "done" ELSE "sending"
    /\ UNCHANGED <<config, balance, plan, sel>>
    /\ UNCHANGED mvars /\ UNCHANGED xvars

\* A block confirms the change of the transactions sent so far.
ConfirmChange ==
    /\ tpc = "sending"
    /\ pending > 0
    /\ utxos' = Append(utxos, pending)
    /\ pending' = 0
    /\ UNCHANGED <<config, balance, plan, tpc, queue, tx, run, sel>>
    /\ UNCHANGED mvars /\ UNCHANGED xvars

\* The command with every float loss, signer answer and network answer: the sum
\* loses a sat only if some amount does, and loses one if all do.
Send ==
    /\ tpc = "sending"
    /\ queue # <<>>
    /\ \E losses \in Losses(Len(Head(queue))) : \E total_loss \in 0..1 :
         \E complete \in BOOLEAN : \E accepted \in BOOLEAN :
           /\ \E i \in DOMAIN losses : losses[i] = total_loss
           /\ SendTransaction(losses, total_loss, complete, accepted)

TxNext ==
    \/ ValidationFails
    \/ \E api_ok \in BOOLEAN : ExecuteAborts(api_ok)
    \/ ExecutePlans
    \/ Send
    \/ ConfirmChange

SpecTx == TxInit /\ [][TxNext]_vars

\* ==================================================================
\* multisig_op.py: signing and broadcasting one transaction
\* ==================================================================

max_retries == 3
http_ok == 200

retry_allowed_never(failed_attempts) == FALSE

\* cli_command, lines 226-265: a failed attempt (non-zero exit, timeout, any
\* exception) is retried until max_retries attempts have been made.
retry_allowed(failed_attempts) == failed_attempts < max_retries - 1

\* sign_raw_transaction, lines 338-342: the modern method's answer is returned
\* when it carries a hex string, whatever its complete flag.
modern_answer_returned(has_hex) == has_hex

signing_incomplete_never(complete) == FALSE

\* create_and_sign_transaction, lines 455-456
signing_incomplete(complete) == ~ complete

api_broadcast_ok_any_2xx(status) == status >= 200 /\ status < 300

\* broadcast_transaction_api, lines 491-496: only status 200 is a success;
\* NoneVal stands for a request that raised (no response).
api_broadcast_ok(status) == status = http_ok

\* ---------------------------------------------------------- SpecBroadcast
\* One sendmany_transaction / auto_transaction from the signing on.  The
\* signer answers a signing command with a failure, with output that carries
\* no hex string, or with a signed hex and its complete flag.
SignAnswers == {"fail", "unparsed", "complete", "incomplete"}
ApiStatuses == {NoneVal, 200, 201, 404, 500}
CliAnswers == {"fail", "empty", "txid"}

BroadcastInit ==
    /\ MIdle
    /\ TIdle
    /\ bc \in [ pc : {"sign_modern"}, attempt : {0}, raw : {1, 2},
                 use_api : BOOLEAN, broadcast : BOOLEAN,
                 signed : {NoneVal}, complete : {FALSE},
                 sign_answers : {0}, incomplete_answers : {0},
                 commands_after_incomplete : {0},
                 api_tries : {0}, api_status : {NoneVal}, api_tx : {NoneVal},
                 cli_tries : {0}, cli_failed : {FALSE}, cli_tx : {NoneVal},
                 result : {"none"}, via : {"none"} ]
    /\ gate = NoneVal
    /\ rt = NoneVal
    /\ once = NoneVal
    /\ mgr = NoneVal

\* sendmany_transaction, lines 549-559, once sign_raw_transaction returned
\* (signed, complete): the completeness check, then the broadcast if requested.
AfterSigning(b, signed, complete) ==
    LET s == [b EXCEPT !.signed = signed, !.complete = complete, !.attempt = 0]
    IN IF signing_incomplete(complete)
       THEN [s EXCEPT !.pc = "done", !.result = "error"]
       ELSE IF ~ s.broadcast
       THEN [s EXCEPT !.pc = "done", !.result = "signed_tx"]
       ELSE [s EXCEPT !.pc = IF s.use_api THEN "api" ELSE "cli"]

\* History of the answers of the signer.
CountAnswer(b, answer) ==
    [b EXCEPT !.sign_answers = IF answer \in {"complete", "incomplete"}
                               THEN @ + 1 ELSE @,
              !.incomplete_answers = IF answer = "incomplete" THEN @ + 1 ELSE @,
              !.commands_after_incomplete =
                  IF b.incomplete_answers > 0 THEN @ + 1 ELSE @]

\* sign_raw_transaction, lines 327-345: signrawtransactionwithkey.
SignModern(answer) ==
    /\ bc.pc = "sign_modern"
    /\ LET b == CountAnswer(bc, answer)
       IN bc' =
            IF answer = "fail"
            THEN IF retry_allowed(b.attempt)
                 THEN [b EXCEPT !.attempt = @ + 1]
                 ELSE [b EXCEPT !.pc = "sign_legacy", !.attempt = 0]
            ELSE IF modern_answer_returned(answer # "unparsed")
            THEN AfterSigning(b, b.raw, answer = "complete")
            ELSE [b EXCEPT !.pc = "sign_legacy", !.attempt = 0]
    /\ UNCHANGED <<gate, rt, once, mgr>> /\ UNCHANGED mvars /\ UNCHANGED tvars

\* sign_raw_transaction, lines 347-364: the legacy signrawtransaction.
SignLegacy(answer) ==
    /\ bc.pc = "sign_legacy"
    /\ LET b == CountAnswer(bc, answer)
       IN bc' =
            IF answer = "fail"
            THEN IF retry_allowed(b.attempt)
                 THEN [b EXCEPT !.attempt = @ + 1]
                 ELSE [b EXCEPT !.pc = "done", !.result = "error"]
            ELSE IF answer = "unparsed"
            THEN AfterSigning(b, NoneVal, FALSE)
            ELSE AfterSigning(b, b.raw, answer = "complete")
    /\ UNCHANGED <<gate, rt, once, mgr>> /\ UNCHANGED mvars /\ UNCHANGED tvars

\* broadcast_transaction, lines 503-509, and broadcast_transaction_api, lines
\* 483-499: one POST of the signed transaction.
BroadcastApi(status) ==
    /\ bc.pc = "api"
    /\ LET b == [bc EXCEPT !.api_tries = @ + 1, !.api_status = status,
                            !.api_tx = bc.signed]
       IN bc' = IF api_broadcast_ok(status)
                THEN [b EXCEPT !.pc = "done", !.result = "txid", !.via = "api"]
                ELSE [b EXCEPT !.pc = "cli", !.attempt = 0]
    /\ UNCHANGED <<gate, rt, once, mgr>> /\ UNCHANGED mvars /\ UNCHANGED tvars

\* broadcast_transaction_cli, lines 463-481: sendrawtransaction; an answer
\* without a transaction id fails the broadcast.
BroadcastCli(answer) ==
    /\ bc.pc = "cli"
    /\ LET b == [bc EXCEPT !.cli_tries = @ + 1, !.cli_tx = bc.signed]
       IN bc' =
            IF answer = "fail"
            THEN IF retry_allowed(b.attempt)
                 THEN [b EXCEPT !.attempt = @ + 1]
                 ELSE [b EXCEPT !.pc = "done", !.result = "error",
                                !.cli_failed = TRUE]
            ELSE IF answer = "empty"
            THEN [b EXCEPT !.pc = "done", !.result = "error", !.cli_failed = TRUE]
            ELSE [b EXCEPT !.pc = "done", !.result = "txid", !.via = "cli"]
    /\ UNCHANGED <<gate, rt, once, mgr>> /\ UNCHANGED mvars /\ UNCHANGED tvars

BroadcastNext ==
    \/ \E answer \in SignAnswers : SignModern(answer)
    \/ \E answer \in SignAnswers : SignLegacy(answer)
    \/ \E status \in ApiStatuses : BroadcastApi(status)
    \/ \E answer \in CliAnswers : BroadcastCli(answer)

SpecBroadcast == BroadcastInit /\ [][BroadcastNext]_vars

\* ---------------------------------------------------------- SpecCli
\* One call of cli_command, lines 222-265.  An attempt ends in one of the
\* outcomes below: exit status 0 with JSON or with plain text on stdout, a
\* non-zero exit status, the 60 second timeout, or another exception (the
\* program could not be started).
retry_delay == 2
CliCommands == {"listunspent", "signrawtransactionwithkey", "sendrawtransaction"}
AttemptOutcomes == {"json", "text", "nonzero", "timeout", "exception"}

attempt_succeeded(outcome) == outcome \in {"json", "text"}

CliInit ==
    /\ MIdle
    /\ TIdle
    /\ bc \in [ pc : {"attempt"}, command : CliCommands, attempt : {0},
                 outcomes : {<<>>}, sleeps : {0}, slept : {0},
                 result : {"none"} ]
    /\ gate = NoneVal
    /\ rt = NoneVal
    /\ once = NoneVal
    /\ mgr = NoneVal

\* One pass of the loop body, lines 227-265: subprocess.run and what follows.
CliAttempt(outcome) ==
    /\ bc.pc = "attempt"
    /\ LET b == [bc EXCEPT !.outcomes = Append(@, outcome)]
       IN bc' =
            IF attempt_succeeded(outcome)
            THEN [b EXCEPT !.pc = "done", !.result = "returned"]
            ELSE IF retry_allowed(b.attempt)
            THEN [b EXCEPT !.pc = "sleep", !.sleeps = @ + 1]
            ELSE [b EXCEPT !.pc = "done", !.result = "raised"]
    /\ UNCHANGED <<gate, rt, once, mgr>> /\ UNCHANGED mvars /\ UNCHANGED tvars

\* time.sleep(retry_delay) is over; continue with the next attempt.
CliSleepDone ==
    /\ bc.pc = "sleep"
    /\ bc' = [bc EXCEPT !.pc = "attempt", !.attempt = @ + 1,
                        !.slept = @ + retry_delay]
    /\ UNCHANGED <<gate, rt, once, mgr>> /\ UNCHANGED mvars /\ UNCHANGED tvars

CliNext ==
    \/ \E outcome \in AttemptOutcomes : CliAttempt(outcome)
    \/ CliSleepDone

\* Every attempt ends (subprocess.run has a timeout) and every sleep ends.
SpecCli == CliInit /\ [][CliNext]_vars /\ WF_vars(CliNext)

\* ==================================================================
\* Claims about the monitor (specification Spec)
\* ==================================================================

reset_today(c) ==
    IF c.pre.last_check_date # date_of(c.start) THEN 0
    ELSE c.pre.distributions_today

reset_this_hour(c) ==
    IF c.pre.last_check_hour # c.start THEN 0
    ELSE c.pre.distributions_this_hour

\* C2 (as amended): the two counters never exceed their caps, so at most
\* max_distributions_per_hour successful distributions are made by cycles that
\* started within one clock hour, and at most max_distributions_per_day by
\* cycles that started on one calendar date.
C2_RateCapsByCycleStart ==
    /\ state.distributions_this_hour <= monitor_config.max_distributions_per_hour
    /\ state.distributions_today <= monitor_config.max_distributions_per_day
    /\ rec.shcount <= monitor_config.max_distributions_per_hour
    /\ rec.sdcount <= monitor_config.max_distributions_per_day

\* C2 (original): the counters never exceed their caps, and at most
\* max_distributions_per_hour successful distributions are recorded within one
\* clock hour and at most max_distributions_per_day within one calendar date.
C2_RateCapsByRecordedHour ==
    /\ state.distributions_this_hour <= monitor_config.max_distributions_per_hour
    /\ state.distributions_today <= monitor_config.max_distributions_per_day
    /\ rec.hour <= monitor_config.max_distributions_per_hour
    /\ rec.day <= monitor_config.max_distributions_per_day

\* C2 witness: a cap of at least one is reached and a later ready cycle of the
\* same hour was refused by it.
C2_Witness ==
    /\ monitor_config.max_distributions_per_hour >= 1
    /\ state.distributions_this_hour = monitor_config.max_distributions_per_hour
    /\ rec.shcount = monitor_config.max_distributions_per_hour
    /\ cyc.done /\ cyc.outcome = "capped"

\* C3 (as amended): when a cycle finds the treasury ready but a cap already met,
\* the execute command is not invoked, total_distributions, last_distribution and
\* last_txid are the same after the cycle as before it, and distributions_today
\* and distributions_this_hour are the same as before it unless the date or the
\* hour changed, in which case the start of the cycle reset them to 0.
C3_CappedCycleKeepsCounters ==
    (cyc.done /\ cyc.ready /\ cyc.capmet) =>
        /\ cyc.execs = 0
        /\ state.total_distributions = cyc.pre.total_distributions
        /\ state.last_distribution = cyc.pre.last_distribution
        /\ last_txid(state) = last_txid(cyc.pre)
        /\ state.distributions_today = reset_today(cyc)
        /\ state.distributions_this_hour = reset_this_hour(cyc)

\* C3 (original): when a cycle finds the treasury ready but a cap already met,
\* the execute command is not invoked and the five fields are the same after the
\* cycle as before it.
C3_CappedCycleChangesNothing ==
    (cyc.done /\ cyc.ready /\ cyc.capmet) =>
        /\ cyc.execs = 0
        /\ state.total_distributions = cyc.pre.total_distributions
        /\ state.last_distribution = cyc.pre.last_distribution
        /\ last_txid(state) = last_txid(cyc.pre)
        /\ state.distributions_today = cyc.pre.distributions_today
        /\ state.distributions_this_hour = cyc.pre.distributions_this_hour

\* C3 witness: hourly cap 1, the second ready cycle of the same hour has been
\* skipped after the first one distributed.
C3_Witness ==
    /\ monitor_config.max_distributions_per_hour = 1
    /\ cyc.done /\ cyc.ready /\ cyc.capmet /\ cyc.execs = 0
    /\ cyc.pre.distributions_this_hour = 1
    /\ cyc.pre.last_check_hour = cyc.start
    /\ state.distributions_this_hour = 1

\* C4: in a cycle in which the sentinel exists when it is checked, no dry-run
\* and no execute command is started.
C4_EmergencyStopRunsNothing ==
    cyc.estop => (cyc.dryruns = 0 /\ cyc.execs = 0)

\* C4 witness: a cycle that found the sentinel has completed, in a state in
\* which a cycle without it would have distributed.
C4_Witness ==
    /\ cyc.estop /\ cyc.done
    /\ ~ CapMet(state, monitor_config)

\* C5 (as amended): a cycle that finds the sentinel leaves total_distributions
\* as it was, and leaves distributions_today and distributions_this_hour as they
\* were unless the date or the hour changed, in which case the start of the
\* cycle reset them to 0.
C5_EmergencyStopKeepsCounters ==
    (cyc.estop /\ cyc.done) =>
        /\ state.total_distributions = cyc.pre.total_distributions
        /\ state.distributions_today = reset_today(cyc)
        /\ state.distributions_this_hour = reset_this_hour(cyc)

\* C5 (original): a cycle that finds the sentinel leaves distributions_today,
\* distributions_this_hour and total_distributions as they were, whatever the
\* current date and hour.
C5_EmergencyStopChangesNothing ==
    (cyc.estop /\ cyc.done) =>
        /\ state.total_distributions = cyc.pre.total_distributions
        /\ state.distributions_today = cyc.pre.distributions_today
        /\ state.distributions_this_hour = cyc.pre.distributions_this_hour

\* C5 witness: a cycle that found the sentinel has completed with non-zero
\* counters that it kept (same date and hour as the cycle before).
C5_Witness ==
    /\ cyc.estop /\ cyc.done
    /\ cyc.pre.last_check_hour = cyc.start
    /\ cyc.pre.distributions_this_hour > 0
    /\ state.distributions_this_hour = cyc.pre.distributions_this_hour
    /\ state.distributions_today = cyc.pre.distributions_today
    /\ state.total_distributions > 0

\* ==================================================================
\* Claims about calculate_distribution (specification SpecCalc)
\* ==================================================================

Calculated == tpc = "calculated"
Planned == tpc = "calculated" /\ ~ plan.raised
Distributable == balance - config.minimum_balance_sats - fee_reserve(config)
FloorShare(percent) == (Distributable * percent) \div 100
FloorRemainder ==
    Distributable - ( FloorShare(config.liquidity_percent)
                    + FloorShare(config.dev_percent)
                    + FloorShare(config.marketing_percent) )

\* C6: calculate_distribution raises the insufficient-balance error if and only
\* if balance <= minimum_balance_sats + fee_reserve; for every larger balance it
\* returns a plan.
C6_InsufficientIffAtMostReserve ==
    Calculated =>
        (plan.raised <=> balance <= config.minimum_balance_sats + fee_reserve(config))

\* C6 witness: the error at a balance equal to the reserve, with a non-zero fee
\* reserve.
C6_Witness ==
    /\ Calculated /\ plan.raised
    /\ fee_reserve(config) > 0
    /\ balance = config.minimum_balance_sats + fee_reserve(config)

\* C7: for a balance above the reserve the three amounts are integers whose sum
\* is exactly distributable = balance - minimum_balance_sats - fee_reserve.
C7_AmountsSumToDistributable ==
    Planned =>
        /\ plan.liquidity \in Int /\ plan.dev \in Int /\ plan.marketing \in Int
        /\ plan.liquidity + plan.dev + plan.marketing = Distributable

\* C7 witness: a plan in which the three rounded shares leave a remainder.
C7_Witness ==
    /\ Planned
    /\ config.fee_rate = 1
    /\ FloorRemainder = 2
    /\ plan.dev = FloorShare(config.dev_percent) + 2

\* C8: for every accepted configuration and every balance above the reserve,
\* none of the three amounts is negative.
C8_NoNegativeAmount ==
    Planned => (plan.liquidity >= 0 /\ plan.dev >= 0 /\ plan.marketing >= 0)

\* C9: with percentages summing to 100, liquidity and marketing are the floors of
\* their shares, dev is the floor of its share plus the whole rounding remainder,
\* and the remainder the code adds to dev is between 0 and 2.
C9_FloorSharesRemainderToDev ==
    Planned =>
        /\ plan.liquidity = FloorShare(config.liquidity_percent)
        /\ plan.marketing = FloorShare(config.marketing_percent)
        /\ plan.dev = FloorShare(config.dev_percent) + FloorRemainder
        /\ FloorRemainder \in 0..2
        /\ LET shares == split_without_remainder(config, Distributable)
           IN (Distributable - (shares.liquidity + shares.dev + shares.marketing))
                 \in 0..2

\* ==================================================================
\* Claims about select_utxos (specification SpecSelect)
\* ==================================================================

Selected == tpc = "selected"

\* C10: select_utxos raises the insufficient-funds error if and only if the sum
\* of all candidates is below the target; when it succeeds the selected UTXOs
\* sum to at least the target, and with target <= sum < target + fee_reserve it
\* returns all candidates.
C10_InsufficientIffSumBelowTarget ==
    Selected =>
        LET r == sel.result
            all == SeqSum(sel.utxos)
        IN /\ r.raised <=> all < sel.target
           /\ ~ r.raised =>
                 /\ SeqSum(r.selected) >= sel.target
                 /\ r.total_input_sats >= sel.target
           /\ (sel.target <= all /\ all < sel.target + select_fee_reserve) =>
                 /\ ~ r.raised
                 /\ Len(r.selected) = Len(sel.utxos)
                 /\ SeqSum(r.selected) = all

\* C10 witness: several candidates that cover the target but not the target plus
\* the fee reserve, all of them returned.
C10_Witness ==
    /\ Selected /\ ~ sel.result.raised
    /\ Len(sel.utxos) >= 2
    /\ sel.target > 0
    /\ SeqSum(sel.utxos) >= sel.target
    /\ SeqSum(sel.utxos) < sel.target + select_fee_reserve
    /\ Len(sel.result.selected) = Len(sel.utxos)

\* ==================================================================
\* Claims about the execute run (specification SpecTx)
\* ==================================================================

TreasuryLeft == SeqSum(utxos) + pending

\* What leaves the treasury goes to the recipients or to the fee.
TxConservation == TreasuryLeft = balance - run.paid - run.fees

\* C1: after every successful distribution started from treasury balance b, the
\* value left in the treasury, b minus the payouts minus the fees paid, is at
\* least minimum_balance_sats.
C1_MinimumReservePreserved ==
    (tpc = "done" /\ run.success) =>
        /\ balance - run.paid - run.fees >= config.minimum_balance_sats
        /\ TreasuryLeft >= config.minimum_balance_sats

\* ==================================================================
\* Claims about one monitor cycle (specification SpecCycle)
\* ==================================================================

Ran(c) == c.done /\ c.outcome \in {"notready", "capped", "success", "failed"}

\* errors_count as the readiness branch of the cycle left it.
ErrorsAfterBranch(c) ==
    c.pre.errors_count + (IF c.outcome = "failed" THEN 1 ELSE 0)

C17_SuccessRecorded ==
    (cyc.done /\ cyc.outcome = "success") =>
        /\ state.distributions_today = reset_today(cyc) + 1
        /\ state.distributions_this_hour = reset_this_hour(cyc) + 1
        /\ state.total_distributions = cyc.pre.total_distributions + 1
        /\ state.last_distribution = cyc.rectime
        /\ last_txid(state) = cyc.txid

\* C18 (as amended): in a cycle that is not skipped by the emergency stop and
\* raises no exception the error counter is decremented by one, never below
\* zero, as the last change of the cycle (after the increment of a failed
\* distribution); a cycle in which an exception is raised increments it by one
\* and does not decay it.
C18_ErrorsDecayUnlessRaised ==
    Ran(cyc) =>
        IF cyc.raised
        THEN state.errors_count = ErrorsAfterBranch(cyc) + 1
        ELSE /\ state.errors_count >= 0
             /\ state.errors_count =
                  (IF ErrorsAfterBranch(cyc) >= 1
                   THEN ErrorsAfterBranch(cyc) - 1 ELSE 0)

\* C18 (original): in every cycle that is not skipped by the emergency stop the
\* error counter is decayed by one toward zero, whatever the outcome, an
\* exception raised inside the cycle included.
C18_ErrorsDecayEveryCycle ==
    Ran(cyc) =>
        state.errors_count =
            (IF ErrorsAfterBranch(cyc) >= 1 THEN ErrorsAfterBranch(cyc) - 1 ELSE 0)

\* C18 witness: a not-ready cycle has decayed a counter of two to one.
C18_Witness ==
    /\ cyc.done /\ cyc.outcome = "notready" /\ ~ cyc.raised
    /\ cyc.pre.errors_count = 2
    /\ state.errors_count = 1

\* errors_count the cycle would have saved had the treasury been not ready.
ErrorsIfNotReady(c) ==
    IF c.raised THEN c.pre.errors_count + 1
    ELSE IF c.pre.errors_count >= 1 THEN c.pre.errors_count - 1 ELSE 0

\* C19: after a cycle in which the execute command failed, the saved
\* errors_count is greater than the one the cycle would have saved had the
\* treasury been not ready.
C19_FailureVisibleInSavedErrors ==
    (cyc.done /\ cyc.outcome = "failed" /\ pc = "idle") =>
        load_state(saved).errors_count > ErrorsIfNotReady(cyc)

C16_SaveLoadRoundTrip ==
    /\ (rt.phase = "loaded" /\ rt.wrote) =>
           /\ state = rt.original
           /\ \A k \in DOMAIN rt.original : state[k] = rt.original[k]
    /\ (rt.phase = "loaded" /\ saved # NoFile /\ saved # Corrupt) =>
           /\ \A k \in DOMAIN saved :
                /\ k \in DOMAIN state
                /\ json_dump_value(k, state[k]) = saved[k]
           /\ \A k \in DOMAIN default_state \ DOMAIN saved :
                state[k] = default_state[k]
           /\ DOMAIN state = DOMAIN saved \cup DOMAIN default_state

\* C16 witness: a state with counters, watermarks, timestamps and a last_txid
\* has been saved and loaded.
C16_Witness ==
    /\ rt.phase = "loaded" /\ rt.wrote
    /\ rt.original.distributions_today = 2
    /\ rt.original.last_distribution = 1
    /\ rt.original.last_check_hour = 1
    /\ "last_txid" \in DOMAIN rt.original
    /\ state.distributions_today = 2

\* ==================================================================
\* Claims about the readiness gate (specification SpecGate)
\* ==================================================================

Fetched == gate.pc = "done" /\ ~ gate.result.failed

GateBalance ==
    (IF gate.data.funded_txo_sum = NoneVal THEN 0 ELSE gate.data.funded_txo_sum)
      - (IF gate.data.spent_txo_sum = NoneVal THEN 0 ELSE gate.data.spent_txo_sum)

GateUtxoCount == IF gate.data.total = NoneVal THEN 0 ELSE gate.data.total

\* C13: should_distribute returns ready = true if and only if utxo_count >=
\* threshold_utxo and balance >= threshold_balance_sats and balance >
\* minimum_balance_sats + min_distribution_amount, where balance is
\* funded_txo_sum - spent_txo_sum; it returns that count and balance with it.
C13_ReadyIffThresholdsMet ==
    Fetched =>
        /\ gate.result.ready <=>
             (/\ GateUtxoCount >= config.threshold_utxo
              /\ GateBalance >= config.threshold_balance_sats
              /\ GateBalance > config.minimum_balance_sats
                                 + config.min_distribution_amount)
        /\ gate.result.utxo_count = GateUtxoCount
        /\ gate.result.balance = GateBalance

\* C13 witness: a balance exactly at minimum_balance_sats +
\* min_distribution_amount, with the other two thresholds met, is not ready.
C13_Witness ==
    /\ Fetched
    /\ GateUtxoCount >= config.threshold_utxo
    /\ GateBalance >= config.threshold_balance_sats
    /\ GateBalance = config.minimum_balance_sats + config.min_distribution_amount
    /\ GateBalance > 0
    /\ ~ gate.result.ready

\* C14: the fallback endpoint is queried only right after the primary endpoint
\* failed for the same fetch; the fetch is reported failed only if both failed;
\* should_distribute then returns (false, 0, 0) and raises nothing.
C14_FallbackOnlyAfterPrimaryFailed ==
    /\ \A i \in 1..Len(gate.queries) :
         gate.queries[i][2] = "fallback" =>
             /\ i > 1
             /\ gate.queries[i - 1] = <<gate.queries[i][1], "primary", FALSE>>
    /\ \A i \in 1..Len(gate.queries) :
         (gate.queries[i][2] = "primary" /\ ~ gate.queries[i][3]
            /\ i < Len(gate.queries)) =>
             gate.queries[i + 1][2] = "fallback"
    /\ gate.result.failed =>
         LET n == Len(gate.queries)
         IN /\ n >= 2
            /\ ~ gate.queries[n][3] /\ gate.queries[n][2] = "fallback"
            /\ ~ gate.queries[n - 1][3] /\ gate.queries[n - 1][2] = "primary"
            /\ gate.queries[n][1] = gate.queries[n - 1][1]
    /\ (gate.pc = "done" /\ \E i \in 1..Len(gate.queries) :
           /\ gate.queries[i][2] = "fallback" /\ ~ gate.queries[i][3]) =>
         gate.result.failed
    /\ gate.result.failed =>
         /\ gate.pc = "done"
         /\ gate.result.ready = FALSE
         /\ gate.result.utxo_count = 0
         /\ gate.result.balance = 0
         /\ ~ gate.result.raised
    /\ ~ gate.result.raised

\* C14 witness: the UTXO fetch succeeded on the fallback endpoint, the balance
\* fetch failed on both, and should_distribute returned (false, 0, 0).
C14_Witness ==
    /\ gate.pc = "done" /\ gate.result.failed
    /\ gate.queries = << <<"utxo", "primary", FALSE>>, <<"utxo", "fallback", TRUE>>,
                         <<"balance", "primary", FALSE>>,
                         <<"balance", "fallback", FALSE>> >>
    /\ gate.data.total = 2 /\ gate.data.funded_txo_sum = 9

\* ==================================================================
\* Claims about signing and broadcasting (specification SpecBroadcast)
\* ==================================================================

ApiFailed == bc.api_tries > 0 /\ bc.api_status # 200

\* C11: with the API preferred the HTTP endpoint is attempted first, once; on
\* any API failure (no response, or any status other than the success status
\* 200, such as 500) the CLI broadcast is attempted with the same signed
\* transaction; the broadcast fails only if both paths failed, and the CLI is
\* not attempted when the API attempt succeeded.
C11_ApiFirstThenCli ==
    bc.use_api =>
        /\ bc.api_tries <= 1
        /\ bc.cli_tries > 0 => ApiFailed
        /\ (ApiFailed /\ bc.pc = "done") =>
               /\ bc.cli_tries > 0
               /\ bc.cli_tx = bc.api_tx
               /\ bc.cli_tx = bc.signed
        /\ ApiFailed => bc.pc \in {"cli", "done"}
        /\ (bc.api_tries > 0 /\ bc.api_status = 200) =>
               /\ bc.cli_tries = 0
               /\ bc.pc = "done" /\ bc.result = "txid" /\ bc.via = "api"
        /\ (bc.api_tries > 0 /\ bc.pc = "done" /\ bc.result = "error") =>
               ApiFailed /\ bc.cli_failed
        /\ (bc.pc = "done" /\ bc.via = "cli") => bc.result = "txid"

\* C11 witness: the API answered HTTP 500 and the CLI broadcast of the same
\* transaction succeeded.
C11_Witness ==
    /\ bc.use_api /\ bc.pc = "done"
    /\ bc.api_tries = 1 /\ bc.api_status = 500
    /\ bc.cli_tries = 1 /\ bc.cli_tx = bc.signed
    /\ bc.result = "txid" /\ bc.via = "cli"

\* C12: when the signer reports the transaction as not fully signed the run
\* fails, no further signing command is run, and no broadcast is attempted;
\* a broadcast only follows a signing result with complete = true.
C12_IncompleteNeverBroadcast ==
    /\ bc.incomplete_answers > 0 =>
           /\ bc.pc = "done" /\ bc.result = "error"
           /\ bc.incomplete_answers = 1
           /\ bc.commands_after_incomplete = 0
           /\ bc.api_tries = 0 /\ bc.cli_tries = 0
    /\ (bc.api_tries > 0 \/ bc.cli_tries > 0 \/ bc.pc \in {"api", "cli"}) =>
           /\ bc.complete
           /\ bc.incomplete_answers = 0
           /\ bc.signed = bc.raw

\* C12 witness: the modern signing command answered with a hex string and
\* complete = false in a run that was to broadcast; the run has failed.
C12_Witness ==
    /\ bc.incomplete_answers = 1 /\ bc.sign_answers = 1
    /\ bc.broadcast /\ bc.use_api
    /\ bc.pc = "done" /\ bc.result = "error"
    /\ bc.signed = bc.raw /\ ~ bc.complete

\* ==================================================================
\* Claims about termination signals (specification Spec)
\* ==================================================================

C22_InFlightDistributionRecorded ==
    (cyc.signal = "execute" /\ cyc.inflight_sent) =>
        /\ state.total_distributions = cyc.pre.total_distributions + 1
        /\ last_txid(state) = cyc.txid
        /\ load_state(saved).total_distributions = state.total_distributions

\* ==================================================================
\* Claims about a second monitor process (specification SpecOnce)
\* ==================================================================

\* C23: no two cycles overlap, also when one is started by the 'once' command
\* while the 'start' loop is running: never are the execute commands of two
\* cycles in flight at once.
C23_NoTwoAttemptsInFlight ==
    ~ (pc = "execute" /\ once.pc = "execute")

\* ==================================================================
\* Claims about the commands of the manager (specification SpecRun)
\* ==================================================================

\* C24: no command reaches a balance query or a transaction unless
\* validate_configuration succeeded first; percentages that do not sum to
\* exactly 100, an empty redeem script and a missing signer key each end the
\* command (ValidationError, exit 1) before any query or transaction.
C24_NothingRunsUnvalidated ==
    LET c == mgr.config
        sum == c.liquidity_percent + c.dev_percent + c.marketing_percent
        bad == sum # 100 \/ ~ c.redeem_script \/ ~ c.signer1_wif \/ ~ c.signer2_wif
    IN /\ (mgr.queries > 0 \/ mgr.txs > 0 \/ mgr.pc \in {"validated", "sending"}) =>
              mgr.validated /\ ~ bad
       /\ bad => (mgr.queries = 0 /\ mgr.txs = 0 /\ ~ mgr.validated)
       /\ (bad /\ mgr.pc = "exited") => mgr.exit_code = 1

\* C24 witness: an execute command with both keys and the redeem script but
\* percentages summing to 99 has ended without any query or transaction.
C24_Witness ==
    /\ mgr.command = "execute" /\ mgr.pc = "exited" /\ mgr.exit_code = 1
    /\ mgr.config.redeem_script /\ mgr.config.signer1_wif
    /\ mgr.config.signer2_wif /\ mgr.config.multisig_script_exists
    /\ mgr.config.liquidity_percent + mgr.config.dev_percent
         + mgr.config.marketing_percent = 99
    /\ mgr.queries = 0 /\ mgr.txs = 0

CeilDiv(a, b) == (a + b - 1) \div b

\* C26: for all input and output counts estimate_transaction_size returns
\* ceil((10 + 295 * inputs + 34 * outputs) * 1.1), and the fee is fee_rate
\* times that size.
C26_SizeIsCeiling ==
    tpc = "estimated" =>
        /\ plan.size = CeilDiv((10 + 295 * plan.num_inputs
                                   + 34 * plan.num_outputs) * 11, 10)
        /\ plan.fee_sats = plan.fee_rate * plan.size

\* C27: calculate_distribution reserves ceil(fee * 1.5) for the fee, where fee
\* is fee_rate times the size of a 1-input/3-output transaction, on top of
\* minimum_balance_sats: it raises exactly when the balance is at most that
\* total reserve, and otherwise distributes the balance less that reserve.
C27_FeeReserveIsCeiling ==
    (tpc = "calculated" /\ config.liquidity_percent >= 0
       /\ config.dev_percent >= 0 /\ config.marketing_percent >= 0) =>
        LET fee == config.fee_rate * estimate_transaction_size(1, 3)
            reserve == config.minimum_balance_sats + CeilDiv(fee * 3, 2)
        IN /\ plan.raised <=> balance <= reserve
           /\ ~ plan.raised =>
                plan.liquidity + plan.dev + plan.marketing = balance - reserve

\* ==================================================================
\* Claims about calls of the external signer (specification SpecCli)
\* ==================================================================

CliAttemptsMade == Len(bc.outcomes)

CliRetriesBounded ==
    /\ CliAttemptsMade <= 3
    /\ \A i \in 1..(CliAttemptsMade - 1) : bc.outcomes[i] \notin {"json", "text"}
    /\ bc.pc = "attempt" =>
           (bc.sleeps = CliAttemptsMade /\ bc.slept = 2 * CliAttemptsMade)
    /\ bc.pc = "sleep" => bc.sleeps = CliAttemptsMade
    /\ bc.pc = "done" =>
           /\ bc.sleeps = CliAttemptsMade - 1
           /\ bc.slept = 2 * (CliAttemptsMade - 1)
           /\ bc.result \in {"returned", "raised"}
           /\ bc.result = "returned" <=>
                  bc.outcomes[CliAttemptsMade] \in {"json", "text"}
           /\ bc.result = "raised" => CliAttemptsMade = 3
    /\ bc.pc # "done" => bc.result = "none"

\* C28: a call of the external signer makes at most max_retries (3) attempts,
\* waits retry_delay (2 s) between consecutive attempts, stops at the first
\* successful attempt, raises after the last failed or timed-out attempt
\* instead of returning, and always ends with a result or an error.
C28_CliCallRetriesAndEnds ==
    /\ [] CliRetriesBounded
    /\ <> (bc.pc = "done")

\* C28 witness: two attempts failed (one timed out), each was followed by the
\* delay, and the third attempt succeeded.
C28_Witness ==
    /\ bc.pc = "done" /\ bc.result = "returned"
    /\ Len(bc.outcomes) = 3
    /\ bc.outcomes[1] = "timeout" /\ bc.outcomes[2] = "nonzero"
    /\ bc.sleeps = 2 /\ bc.slept = 4

\* ==================================================================
\* Claims about the emergency stop and the counter resets (Spec, SpecCycle)
\* ==================================================================

CycleStarted == ~ cyc.done \/ cyc.outcome # "none"

\* C29: the emergency stop is not sticky.  A cycle that finds the sentinel is
\* preempted before any readiness query; a cycle that does not find it, also
\* after earlier cycles were preempted, performs the readiness query and, if
\* ready and under the caps, starts the distribution.
C29_EmergencyStopNotSticky ==
    CycleStarted =>
        /\ cyc.estop => (cyc.dryruns = 0 /\ cyc.execs = 0 /\ cyc.outcome = "estop")
        /\ ~ cyc.estop => (cyc.dryruns >= 1 /\ cyc.outcome # "estop")
        /\ (~ cyc.estop /\ cyc.ready /\ ~ cyc.capmet) => cyc.execs = 1
        /\ pc = "estop_sleep" <=> (cyc.estop /\ ~ cyc.done /\ cyc.signal = "none")

\* C29 witness: an earlier cycle was preempted, the sentinel was removed, and
\* this cycle queried readiness and distributed.
C29_Witness ==
    /\ cyc.stopped_before /\ ~ cyc.estop
    /\ cyc.dryruns = 1 /\ cyc.execs = 1
    /\ cyc.outcome = "success" /\ cyc.done

\* C30: at the start of a cycle distributions_today is reset to 0 exactly when
\* the date differs from the stored last_check_date and
\* distributions_this_hour exactly when the hour differs from the stored
\* last_check_hour; otherwise the counters keep their values.  A restart
\* brings back the counters and the stored date and hour the monitor exited
\* with, so the same holds for the first cycle of the new process.
C30_CountersResetOnChangeOnly ==
    [][ /\ (pc = "idle" /\ pc' \in {"estop_sleep", "dryrun"}) =>
            /\ state'.distributions_today =
                   IF state.last_check_date # date_of(now)
                   THEN 0 ELSE state.distributions_today
            /\ state'.distributions_this_hour =
                   IF state.last_check_hour # now
                   THEN 0 ELSE state.distributions_this_hour
            /\ state'.last_check_date = date_of(now)
            /\ state'.last_check_hour = now
        /\ (pc = "exited" /\ pc' = "idle") =>
            /\ state'.distributions_today = state.distributions_today
            /\ state'.distributions_this_hour = state.distributions_this_hour
            /\ state'.last_check_date = state.last_check_date
            /\ state'.last_check_hour = state.last_check_hour ]_vars

\* C30 witness: the monitor distributed, exited and was started again within
\* the same hour; the first cycle of the new process has kept both counters.
C30_Witness ==
    /\ cyc.restarted /\ cyc.restarts = 1
    /\ pc = "dryrun"
    /\ cyc.pre.last_check_hour = cyc.start
    /\ cyc.pre.distributions_this_hour = 1
    /\ state.distributions_this_hour = 1
    /\ state.distributions_today = 1

\* ==================================================================
\* Further claims about select_utxos (specification SpecSelect)
\* ==================================================================

CountIn(v, s) == Cardinality({ i \in DOMAIN s : s[i] = v })

\* C31: select_utxos returns a prefix of the candidates sorted by value
\* descending (the selected values are non-increasing, are taken from the
\* candidates, and no candidate left out is larger than the last one
\* selected), it stops as soon as the running total reaches target +
\* fee_reserve (without the last selected UTXO the total is below that), and
\* the total returned is the sum of the selected values.
C31_SelectionIsMinimalPrefix ==
    Selected =>
        LET r == sel.result
            n == Len(r.selected)
        IN /\ \A i \in 1..(n - 1) : r.selected[i] >= r.selected[i + 1]
           /\ \A v \in UtxoValues : CountIn(v, r.selected) <= CountIn(v, sel.utxos)
           /\ \A v \in UtxoValues :
                 (n > 0 /\ CountIn(v, r.selected) < CountIn(v, sel.utxos)) =>
                     v <= r.selected[n]
           /\ n = 0 => sel.utxos = <<>>
           /\ r.total_input_sats = SeqSum(r.selected)
           /\ n > 0 => r.total_input_sats - r.selected[n] < sel.target + 5000

\* C31 witness: three candidates of which the two largest reach the target
\* plus the fee reserve; the third is left out.
C31_Witness ==
    /\ Selected /\ ~ sel.result.raised
    /\ Len(sel.utxos) = 3 /\ Len(sel.result.selected) = 2
    /\ sel.utxos[1] < sel.utxos[3]
    /\ sel.result.total_input_sats >= sel.target + 5000

\* ==================================================================
\* Claims about building a transaction (specification SpecBuild)
\* ==================================================================

Built == tpc = "built"

\* C32: in a transaction that is built, change = selected inputs - total spend
\* (the sats value build computes for the sum of the recipients' amounts) -
\* estimated fee; a change output of exactly that value is added if and only
\* if change exceeds the dust threshold (546), and otherwise the outputs are
\* exactly the recipients' amounts.
C32_ChangeOutputIffAboveDust ==
    (Built /\ tx.signer_called) =>
        /\ tx.change_sats = SeqSum(tx.inputs) - tx.total_send_sats - tx.estimated_fee
        /\ tx.change_sats > 546 =>
              /\ tx.change_output = tx.change_sats
              /\ tx.outputs_total = SeqSum(tx.recipients) + tx.change_sats
        /\ tx.change_sats <= 546 =>
              /\ tx.change_output = 0
              /\ tx.outputs_total = SeqSum(tx.recipients)

\* C32 witness: a transaction whose change is exactly the dust threshold was
\* built without a change output.
C32_Witness ==
    /\ Built /\ tx.signer_called /\ ~ tx.raised
    /\ tx.change_sats = 546
    /\ tx.change_output = 0
    /\ tx.outputs_total = SeqSum(tx.recipients)

\* C33: the fee build subtracts is determined by the fee rate passed to it:
\* that fee rate times the size estimated from the input and output counts
\* (not below the minimum relay fee).
C33_FeeFollowsFeeRateArgument ==
    (Built /\ tx.signer_called) =>
        LET size == Len(tx.inputs) * 148 + (Len(tx.recipients) + 1) * 34 + 10
        IN tx.estimated_fee = Max(tx.fee_rate * size, 1000)

\* C35: build refuses, before any UTXO fetch or signer call, every request in
\* which some recipient amount does not exceed the dust threshold (546).
C35_AmountAtDustRefused ==
    (Built /\ \E i \in DOMAIN tx.recipients : tx.recipients[i] <= 546) =>
        /\ tx.raised
        /\ ~ tx.fetched
        /\ ~ tx.signer_called

\* C37: every transaction handed to the signer pays at least the estimated
\* fee: the selected inputs less all outputs are never below it.
C37_FeeAlwaysPaid ==
    (Built /\ tx.signer_called) =>
        /\ SeqSum(tx.inputs) - tx.outputs_total >= tx.estimated_fee
        /\ tx.outputs_total <= SeqSum(tx.inputs)

\* ==================================================================
\* Claims about the per-recipient distribution (specification SpecTx)
\* ==================================================================

\* C34: in per-recipient mode a distribution whose plan was made attempts
\* three transactions in the order liquidity, dev, marketing, each exactly
\* once, sleeps the fixed delay between every two consecutive attempts, and
\* reports success if and only if all three succeeded.
C34_ThreeAttemptsWithDelay ==
    (tpc = "done" /\ run.attempts > 0 /\ ~ config.use_sendmany) =>
        /\ Len(run.log) = 3
        /\ run.log[1].recipients = << plan.liquidity >>
        /\ run.log[2].recipients = << plan.dev >>
        /\ run.log[3].recipients = << plan.marketing >>
        /\ \A i \in 1..2 : run.log[i].slept
        /\ run.success <=> \A i \in 1..3 : run.log[i].ok

\* ==================================================================
\* Claims about the monitor and the manager together (specification SpecReady)
\* ==================================================================

\* The cycle is past its readiness check.
ReadyChecked ==
    \/ pc = "execute"
    \/ pc = "idle" /\ cyc.done /\ cyc.outcome # "none"

\* C36: a cycle not preempted by the emergency stop, whose dry-run ran and
\* found the gate's three conditions to hold, and which finds both counters
\* below their caps, starts the execute command exactly once; every other
\* cycle starts it zero times.
C36_ReadyCycleExecutesOnce ==
    ReadyChecked =>
        cyc.execs = IF /\ ~ cyc.estop
                       /\ mgr.success
                       /\ mgr.api_ok
                       /\ should_distribute(config, Len(utxos), balance)
                       /\ ~ cyc.capmet
                    THEN 1 ELSE 0

\* ==================================================================
\* Claims about the gate and the calculation (specification SpecCalc)
\* ==================================================================

\* C38: for every accepted configuration and every balance for which the gate
\* (should_distribute, with the UTXO threshold met) reports ready,
\* calculate_distribution on that balance succeeds.
C38_ReadyBalanceCalculates ==
    (Calculated /\ should_distribute(config, config.threshold_utxo, balance)) =>
        ~ plan.raised

\* ==================================================================
\* Claims about the counters of the monitor (specification Spec)
\* ==================================================================

C40_MovedFundsCounted ==
    (cyc.done /\ cyc.outcome \in {"success", "failed"} /\ mgr.sent >= 1) =>
        /\ state.total_distributions = cyc.pre.total_distributions + 1
        /\ state.distributions_today >= 1
        /\ state.distributions_this_hour >= 1

====
